---------------------------- MODULE Spec2Model ----------------------------
(***************************************************************************)
(* Model of the data-transformation pipeline of the snow-removal           *)
(* reporting crew: tools/data_transformer_tool.py (safe_parse_json and     *)
(* DataTransformerTool) and models/data_models.py (the pydantic models).   *)
(*                                                                         *)
(* Conventions                                                             *)
(*  - A number is an integer count of hundredths (25.0 is 2500).           *)
(*  - A JSON scalar is a record [t, n, s]: t is "missing" (the key is not  *)
(*    in the mapping), "null", "num" (n is the number), "numstr" (a string *)
(*    that holds a number, n) or "text" (any other string, s).             *)
(*  - A Python str/None argument is a record [k] or [k, v]: k is "none",   *)
(*    "empty", "blank" (whitespace only), "garbage" (text json.loads       *)
(*    rejects) or "json" (text json.loads accepts, v the decoded value).   *)
(*  - A decoded JSON value is [t |-> "obj", o |-> <mapping>] or a record   *)
(*    [t] with t in "arr", "num", "str", "bool", "null".                   *)
(*  - A call that can raise yields [raised |-> TRUE, exc |-> <type>] or    *)
(*    [raised |-> FALSE, val |-> <value>].                                 *)
(***************************************************************************)
EXTENDS Integers, Sequences, FiniteSets, TLC

VARIABLES
    pc,            \* "idle" | "called" | "returned" | "raised"
    weather_data,  \* _run's four arguments (str or None)
    fuel_data,
    salt_data,
    traffic_data,
    outcome,       \* what _run gave its caller: the document, or the exception
    report,        \* what ReportGeneratorTool._run returned for the document
    call,          \* a component called on its own: [op, args]
    result         \* what that call returned or raised

vars == <<pc, weather_data, fuel_data, salt_data, traffic_data, outcome,
          report, call, result>>

-----------------------------------------------------------------------------
(* Numbers and scalars *)

\* n whole units, in hundredths
U(n) == n * 100

Min(a, b) == IF a <= b THEN a ELSE b
Max(a, b) == IF a >= b THEN a ELSE b

Missing == [t |-> "missing", n |-> 0, s |-> ""]
Null    == [t |-> "null", n |-> 0, s |-> ""]
Num(n)  == [t |-> "num", n |-> n, s |-> ""]
NumStr(n) == [t |-> "numstr", n |-> n, s |-> ""]
Text(s) == [t |-> "text", n |-> 0, s |-> s]

\* d.get(key, default) on a scalar entry
Get(v, default) == IF v.t = "missing" THEN default ELSE v

\* float(x) raises TypeError on None and ValueError on a non-numeric string
FloatOk(v) == v.t \in {"num", "numstr"}
Float(v) == v.n

\* json.loads(value) of one string-valued entry, as safe_parse_json's nested
\* mode does it: a string holding a number becomes the number, any other
\* string is kept (json.JSONDecodeError -> continue)
NestScalar(v) == IF v.t = "numstr" THEN Num(v.n) ELSE v

\* str(x)
Str(v) ==
    CASE v.t = "text" -> v.s
      [] v.t = "null" -> "None"
      [] OTHER -> "<number>"

\* s.lower(), on the strings the payloads use
Lower(s) ==
    CASE s = "WARNING" -> "warning"
      [] s = "Danger" -> "danger"
      [] s = "High" -> "high"
      [] s = "Later" -> "later"
      [] s = "Accident" -> "accident"
      [] s = "Road works" -> "road works"
      [] s = "Road Closed" -> "road closed"
      [] s = "Traffic jam" -> "traffic jam"
      [] OTHER -> s

\* Python's round(x, 1) on hundredths: to the nearest tenth, ties to even
Round1(x) ==
    LET q == x \div 10
        r == x % 10
    IN  IF r < 5 THEN q * 10
        ELSE IF r > 5 THEN (q + 1) * 10
        ELSE IF q % 2 = 0 THEN q * 10 ELSE (q + 1) * 10

-----------------------------------------------------------------------------
(* Python results *)

Ok(v) == [raised |-> FALSE, val |-> v]
Raise(e) == [raised |-> TRUE, exc |-> e]

-----------------------------------------------------------------------------
(* The str/None arguments of _run and json.loads *)

None    == [k |-> "none"]
Empty   == [k |-> "empty"]
Blank   == [k |-> "blank"]
Garbage == [k |-> "garbage"]
Json(v) == [k |-> "json", v |-> v]
Obj(o)  == [t |-> "obj", o |-> o]
NonObjects == {[t |-> x] : x \in {"arr", "num", "str", "bool", "null"}}

\* json.loads(s) for a str s
json_loads(s) ==
    IF s.k = "json" THEN Ok(s.v) ELSE Raise("JSONDecodeError")

\* the guard with only its second operand, `not json_str.strip()`: None has
\* no strip.  C1 depends on the first operand, `not json_str`.
NoText_StripOnly(json_str) ==
    IF json_str.k = "none" THEN Raise("AttributeError")
    ELSE Ok(json_str.k \in {"empty", "blank"})

\* the guard `not json_str or not json_str.strip()`
NoText(json_str) == Ok(json_str.k \in {"none", "empty", "blank"})

-----------------------------------------------------------------------------
(* Time strings *)

\* A time string is [base, wraps]: base names the text the payload carried
\*   "isoTZ" 2025-02-14T00:00:00Z   "isoT" 2025-02-14T00:00:00
\*   "isoSpace" 2025-02-14 00:00:00 "tod" 21:00      "later" / "Later"
\*   "junk" any other text          "empty" ''
\*   "now" datetime.now().isoformat()   "now3h" (now + 3 h).isoformat()
\* and wraps counts how many times it was rewritten to f"{now.date()}T{time}Z".
Time(base) == [base |-> base, wraps |-> 0]

ContainsT(ts) == ts.wraps > 0 \/ ts.base \in {"isoTZ", "isoT", "now", "now3h"}
EndsWithZ(ts) == ts.wraps > 0 \/ ts.base = "isoTZ"
IsLater(ts) == ts.wraps = 0 /\ ts.base \in {"later", "Later"}
PrependDate(ts) == [ts EXCEPT !.wraps = @ + 1]

\* datetime.fromisoformat(v.replace('Z', '+00:00')) does not raise
FromIsoFormatOk(ts) ==
    \/ ts.wraps = 0 /\ ts.base \in {"isoTZ", "isoT", "isoSpace", "now", "now3h"}
    \/ ts.wraps = 1 /\ ts.base = "tod"

\* WeatherForecastEntry.validate_time_format
validate_time_format(v) ==
    IF FromIsoFormatOk(v) THEN v
    ELSE IF IsLater(v) THEN Time("now3h")
    ELSE PrependDate(v)

-----------------------------------------------------------------------------
(* Weather payloads *)

\* A forecast entry of the payload: t is "obj" or, for an element that is
\* not a mapping, "num"; time is [t, ts] with t "missing", "str" or "num".
NoTime == [t |-> "missing", ts |-> Time("empty")]
TimeOf(base) == [t |-> "str", ts |-> Time(base)]
NumTime == [t |-> "num", ts |-> Time("empty")]
FEntry(time, temp, snowfall) ==
    [t |-> "obj", time |-> time, temp |-> temp, snowfall |-> snowfall]
NonDictEntry == [t |-> "num", time |-> NoTime, temp |-> Missing, snowfall |-> Missing]

\* An alert of the payload: t is "obj" or, for an element that is not a
\* mapping, "text"
Alert(level, message) == [t |-> "obj", level |-> level, message |-> message]
NonDictAlert == [t |-> "text", level |-> Missing, message |-> Missing]

\* A list-valued entry: t is "missing", "list", "strlist" (a string that
\* holds the JSON text of the list), "text" (any other non-empty string) or
\* "num"
NoList == [t |-> "missing", items |-> <<>>]
List(items) == [t |-> "list", items |-> items]
StrList(items) == [t |-> "strlist", items |-> items]
NumList == [t |-> "num", items |-> <<>>]
NestList(l) == IF l.t = "strlist" THEN List(l.items) ELSE l

\* data['currentConditions']: t is "missing", "obj" or "text"
NoCC == [t |-> "missing", temperature |-> Missing, description |-> Missing,
         accumulation |-> Missing]
CC(temperature, description, accumulation) ==
    [t |-> "obj", temperature |-> temperature, description |-> description,
     accumulation |-> accumulation]

\* data['current_weather_conditions'] (the nested shape): t is "missing" or
\* "obj"
NoCWC == [t |-> "missing", temperature |-> Missing, snow_alert |-> Missing,
          current_snow_amount |-> Missing, snowfall_predictions |-> NoList]
CWC(temperature, snow_alert, current_snow_amount, snowfall_predictions) ==
    [t |-> "obj", temperature |-> temperature, snow_alert |-> snow_alert,
     current_snow_amount |-> current_snow_amount,
     snowfall_predictions |-> snowfall_predictions]

EmptyWeather ==
    [currentConditions |-> NoCC, current_conditions |-> Missing,
     current_temp |-> Missing, accumulation |-> Missing,
     forecast |-> NoList, alerts |-> NoList,
     current_weather_conditions |-> NoCWC, other |-> FALSE]

\* `not weather_data` for a mapping: it has no key
IsEmptyWeather(o) == o = EmptyWeather

\* safe_parse_json's nested decoding of the weather mapping's string values
NestWeather(o) ==
    [o EXCEPT !.current_conditions = NestScalar(@),
              !.current_temp = NestScalar(@),
              !.accumulation = NestScalar(@),
              !.forecast = NestList(@),
              !.alerts = NestList(@)]

-----------------------------------------------------------------------------
(* WeatherData, WeatherForecastEntry, WeatherAlert *)

ValidLevels == {"info", "warning", "danger"}

\* An alert of the output: arg is the number its message formats, 0 if none
MkAlert(level, message, arg) ==
    [level |-> level, message |-> message, arg |-> arg]

\* WeatherAlert(level=..., message=...) passes validation: validate_level
\* accepts the three levels in any case, and message must be a str
WeatherAlertOk(level, message) ==
    /\ Lower(level) \in ValidLevels
    /\ message.t \in {"text", "numstr"}

\* WeatherForecastEntry(time, snowfall, temp) passes validation (snowfall ge=0)
WeatherForecastEntryOk(snowfall) == snowfall >= 0

\* WeatherData(...) passes validation, its forecast and alerts being built
WeatherDataOk(current_conditions, accumulation) ==
    /\ Len(current_conditions) >= 1
    /\ accumulation >= 0

-----------------------------------------------------------------------------
(* DataTransformerTool._transform_weather_data *)

\* the local mapping current_conditions that standardize_weather_data builds
StdCurrentConditions(data) ==
    IF data.currentConditions.t # "missing" THEN data.currentConditions
    ELSE IF data.current_conditions.t # "missing"
         THEN CC(Get(data.current_temp, Num(0)), data.current_conditions,
                 Get(data.accumulation, Num(0)))
         ELSE CC(Missing, Missing, Missing)

\* the time of one standardized forecast entry
StdTime(time) ==
    LET ts == IF time.t = "missing" THEN Time("empty") ELSE time.ts
    IN  IF ContainsT(ts) /\ EndsWithZ(ts) THEN ts
        ELSE IF IsLater(ts) THEN Time("now3h")
        ELSE PrependDate(ts)

\* iterating a list-valued entry raises, or its elements cannot be read
IterRaises(l) == l.t \in {"num", "null"}
Items(l) == IF l.t = "list" THEN l.items ELSE <<>>

\* the forecast loop of standardize_weather_data raises
StdForecastRaises(l) ==
    \/ IterRaises(l)
    \/ l.t \in {"text", "strlist"}
    \/ \E i \in 1..Len(Items(l)) :
         LET entry == Items(l)[i]
         IN  \/ entry.t # "obj"
             \/ entry.time.t = "num"
             \/ ~FloatOk(Get(entry.temp, Num(0)))
             \/ ~FloatOk(Get(entry.snowfall, Num(0)))

StdForecast(l) ==
    [i \in 1..Len(Items(l)) |->
        [time |-> StdTime(Items(l)[i].time),
         temp |-> Float(Get(Items(l)[i].temp, Num(0))),
         snowfall |-> Float(Get(Items(l)[i].snowfall, Num(0)))]]

\* the alerts loop of standardize_weather_data raises: alert.get('level',
\* '').lower() on a level that is not a string
StdAlertsRaises(l) ==
    \/ IterRaises(l)
    \/ \E i \in 1..Len(Items(l)) :
         /\ Items(l)[i].t = "obj"
         /\ Items(l)[i].level.t \in {"num", "null"}

\* building the WeatherAlert list from the payload's own alerts raises
AlertsRaise(l) ==
    \/ IterRaises(l)
    \/ l.t \in {"text", "strlist"}
    \/ \E i \in 1..Len(Items(l)) :
         LET alert == Items(l)[i]
         IN  \/ alert.t # "obj"
             \/ Get(alert.level, Text("info")).t \notin {"text", "numstr"}
             \/ ~WeatherAlertOk(Str(Get(alert.level, Text("info"))),
                                Get(alert.message, Text("No message")))

WeatherAlerts(l) ==
    [i \in 1..Len(Items(l)) |->
        MkAlert(Lower(Str(Get(Items(l)[i].level, Text("info")))),
                Str(Get(Items(l)[i].message, Text("No message"))), 0)]

NoDataWeather ==
    [current_temp |-> 0, current_conditions |-> "No data", accumulation |-> 0,
     forecast |-> <<>>, alerts |-> <<>>]

\* the except block answering with the no-data snapshot: no alert tells of
\* the failure
ErrorWeather_NoAlert ==
    [current_temp |-> 0, current_conditions |-> "No data", accumulation |-> 0,
     forecast |-> <<>>, alerts |-> <<>>]

ErrorWeather ==
    [current_temp |-> 0, current_conditions |-> "Error", accumulation |-> 0,
     forecast |-> <<>>,
     alerts |-> <<MkAlert("warning", "Failed to transform weather data", 0)>>]

\* some statement of the try block raises
WeatherRaises(data) ==
    LET cc == StdCurrentConditions(data)
    IN  \/ StdForecastRaises(data.forecast)
        \/ StdAlertsRaises(data.alerts)
        \/ cc.t # "obj"
        \/ ~FloatOk(Get(cc.temperature, Num(0)))
        \/ ~FloatOk(Get(cc.accumulation, Num(0)))
        \/ ~WeatherDataOk(Str(Get(cc.description, Text("No data"))),
                          Float(Get(cc.accumulation, Num(0))))
        \/ \E i \in 1..Len(Items(data.forecast)) :
             ~WeatherForecastEntryOk(StdForecast(data.forecast)[i].snowfall)
        \/ AlertsRaise(data.alerts)

\* _transform_weather_data(weather_data), weather_data a mapping
transform_weather_data(data) ==
    IF IsEmptyWeather(data) THEN NoDataWeather
    ELSE IF WeatherRaises(data) THEN ErrorWeather
    ELSE LET cc == StdCurrentConditions(data)
             forecast == StdForecast(data.forecast)
         IN  [current_temp |-> Float(Get(cc.temperature, Num(0))),
              current_conditions |-> Str(Get(cc.description, Text("No data"))),
              accumulation |-> Float(Get(cc.accumulation, Num(0))),
              forecast |-> [i \in 1..Len(forecast) |->
                              [time |-> validate_time_format(forecast[i].time),
                               snowfall |-> forecast[i].snowfall,
                               temp |-> forecast[i].temp]],
              alerts |-> WeatherAlerts(data.alerts)]

-----------------------------------------------------------------------------
(* ResourceData, DepotStatus *)

StatusColors == {"success", "warning", "danger", "info"}

DepotStatus(name, status, status_color) ==
    [name |-> name, status |-> status, status_color |-> status_color]

\* ResourceData.validate_percentage
validate_percentage(v) == Round1(Min(Max(v, 0), U(100)))

\* ResourceData(salt_level, fuel_level, depots): the Field constraints
\* ge=0, le=100 are checked before the validator runs
ResourceData(salt_level, fuel_level, depots) ==
    IF /\ 0 <= salt_level /\ salt_level <= U(100)
       /\ 0 <= fuel_level /\ fuel_level <= U(100)
    THEN Ok([salt_level |-> validate_percentage(salt_level),
             fuel_level |-> validate_percentage(fuel_level),
             depots |-> depots])
    ELSE Raise("ValidationError")

-----------------------------------------------------------------------------
(* Inventory payloads and DataTransformerTool._transform_inventory_data *)

\* other (here and in the weather and traffic mappings): the mapping has
\* keys the transformer does not read
EmptyFuel ==
    [diesel |-> Missing, gasoline |-> Missing, fuel_level |-> Missing,
     other |-> FALSE]
EmptySalt ==
    [rockSalt |-> Missing, treatedSalt |-> Missing, salt_level |-> Missing,
     other |-> FALSE]

NestFuel(o) ==
    [o EXCEPT !.diesel = NestScalar(@), !.gasoline = NestScalar(@),
              !.fuel_level = NestScalar(@)]
NestSalt(o) ==
    [o EXCEPT !.rockSalt = NestScalar(@), !.treatedSalt = NestScalar(@),
              !.salt_level = NestScalar(@)]

UnknownInventory ==
    [salt_level |-> U(50), fuel_level |-> U(50),
     depots |-> <<DepotStatus("Main Depot", "Unknown", "warning")>>]

\* min((total / (total * 2)) * 100, 100) if total > 0 else 0
Percentage(total) ==
    IF total > 0 THEN Min((total * U(100)) \div (total * 2), U(100)) ELSE 0

\* the depot labelled from the salt level alone.  C22 depends on both levels
\* deciding the status.
DepotLabel_SaltOnly(salt_level, fuel_level) ==
    IF salt_level > U(30)
    THEN DepotStatus("Main Depot", "Operational", "success")
    ELSE DepotStatus("Main Depot", "Low Stock", "warning")

DepotLabel(salt_level, fuel_level) ==
    IF salt_level > U(30) /\ fuel_level > U(30)
    THEN DepotStatus("Main Depot", "Operational", "success")
    ELSE DepotStatus("Main Depot", "Low Stock", "warning")

\* _transform_inventory_data from the totals on, fuel and salt mappings
InventoryLevels(fuel, salt) ==
    IF \/ ~FloatOk(Get(fuel.diesel, Num(0)))
       \/ ~FloatOk(Get(fuel.gasoline, Num(0)))
       \/ ~FloatOk(Get(salt.rockSalt, Num(0)))
       \/ ~FloatOk(Get(salt.treatedSalt, Num(0)))
    THEN UnknownInventory
    ELSE LET total_fuel == Float(Get(fuel.diesel, Num(0)))
                           + Float(Get(fuel.gasoline, Num(0)))
             total_salt == Float(Get(salt.rockSalt, Num(0)))
                           + Float(Get(salt.treatedSalt, Num(0)))
             fuel_level == Percentage(total_fuel)
             salt_level == Percentage(total_salt)
             made == ResourceData(salt_level, fuel_level,
                                  <<DepotLabel(salt_level, fuel_level)>>)
         IN  IF made.raised THEN UnknownInventory ELSE made.val

\* _transform_inventory_data(fuel_data, salt_data), both mappings
transform_inventory_data(fuel, salt) ==
    IF fuel = EmptyFuel \/ salt = EmptySalt THEN UnknownInventory
    ELSE InventoryLevels(fuel, salt)

-----------------------------------------------------------------------------
(* Traffic payloads *)

\* The text after " at " in an incident string: fmt is "comma_space"
\* ("46.8, -71.2"), "comma" ("46.8,-71.2"), "none" (no comma), "three" (more
\* than two pieces) or "nonnum" (pieces float() rejects)
Coords(fmt, lat, lon) == [fmt |-> fmt, lat |-> lat, lon |-> lon]

\* An element of incidents / roadClosures: t is "str" or "num"; parts is the
\* length of s.split(" at "), desc the piece before the first " at "
Incident(desc, coord) ==
    [t |-> "str", parts |-> 2, desc |-> desc, coord |-> coord]
NoAtIncident(desc) ==
    [t |-> "str", parts |-> 1, desc |-> desc, coord |-> Coords("none", 0, 0)]
NonStrIncident ==
    [t |-> "num", parts |-> 0, desc |-> "", coord |-> Coords("none", 0, 0)]

\* a currentTrafficFlow mapping: t is "missing", "obj" or "text"
Flow(speed, incidents, roadClosures) ==
    [t |-> "obj", speed |-> speed, incidents |-> incidents,
     roadClosures |-> roadClosures, Incidents |-> NoList,
     Road_Closures |-> NoList]
NoFlow == [Flow(Missing, NoList, NoList) EXCEPT !.t = "missing"]
TextFlow == [Flow(Missing, NoList, NoList) EXCEPT !.t = "text"]
\* the mapping {} that .get(key, {}) supplies
EmptyFlow == Flow(Missing, NoList, NoList)
FlowOr(f) == IF f.t = "missing" THEN EmptyFlow ELSE f
\* `not current_flow`
FlowFalsy(f) == f = EmptyFlow

\* A coordinate of a LineString: t is "pair" ([lon, lat] numbers), "triple"
\* (three numbers), "num" (not a list) or "strpair" (a list of two strings)
Pair(lon, lat) == [t |-> "pair", lon |-> lon, lat |-> lat]
BadCoord(t) == [t |-> t, lon |-> 0, lat |-> 0]

\* route['geometry']: t is "missing", "obj" or "text".  wrap is "Feature"
\* when geometry['type'] is 'Feature' and then inner says whether the key
\* 'geometry' is "missing", an "obj" or a "text"; type and coordinates are
\* those of the geometry proper (the inner one of a Feature).
Geometry(wrap, inner, type, coordinates) ==
    [t |-> "obj", wrap |-> wrap, inner |-> inner, type |-> type,
     coordinates |-> coordinates]
Feature(type, coordinates) == Geometry("Feature", "obj", type, coordinates)
Bare(type, coordinates) == Geometry("bare", "obj", type, coordinates)
NoGeometry == [Geometry("bare", "obj", "", NoList) EXCEPT !.t = "missing"]

\* an element of routes: t is "obj" or "num"
Route(id, priority, geometry) ==
    [t |-> "obj", id |-> id, priority |-> priority, geometry |-> geometry]
NonDictRoute == [t |-> "num", id |-> Missing, priority |-> Missing,
                 geometry |-> NoGeometry]

\* An element of optimizedRoutes / optimized_route.routes: kind is "route"
\* ({'route': points}), "legs" ({'legs': [{'points': points}]}), "plain" (a
\* mapping with neither) or "num"; readable is FALSE when reading its points
\* raises (points that are no list, a point that is no mapping)
OptRoute(kind, readable) == [kind |-> kind, readable |-> readable]

\* data['routeOptimizationPlan']: t is "missing", "obj" or "text"; impact is
\* the t of its trafficImpactAnalysis, flow that one's currentTrafficFlow
Plan(impact, flow, optimizedRoutes) ==
    [t |-> "obj", impact |-> impact, flow |-> flow,
     optimizedRoutes |-> optimizedRoutes]
NoPlan == [Plan("missing", NoFlow, NoList) EXCEPT !.t = "missing"]

\* data['Route Optimization Plan']: integration is the t of its 'Traffic
\* Integration', flow that one's 'Current Traffic Flow'
NoCapsPlan == [t |-> "missing", integration |-> "missing", flow |-> NoFlow]
CapsPlan(flow) == [t |-> "obj", integration |-> "obj", flow |-> flow]

EmptyTraffic ==
    [currentTrafficFlow |-> NoFlow, routeOptimizationPlan |-> NoPlan,
     Route_Optimization_Plan |-> NoCapsPlan, optimized_route |-> NoList,
     routes |-> NoList, active_routes |-> Missing, coverage |-> Missing,
     other |-> FALSE]

\* safe_parse_json's nested decoding of the traffic mapping's string values
NestTraffic(o) ==
    [o EXCEPT !.routes = NestList(@),
              !.active_routes = NestScalar(@),
              !.coverage = NestScalar(@)]

-----------------------------------------------------------------------------
(* RouteData, FleetData, VehicleStatus, MapIncident, MapRoute, MapData *)

\* a mapping with string keys is a sequence of [name, ...] in insertion order
Score(name, score) == [name |-> name, score |-> score]
Zone(name, score, color) == [name |-> name, score |-> score, color |-> color]

\* validate_efficiency_scores with min(v, 100) in place of
\* max(0, min(v, 100)).  C3 depends on the lower clamp.
validate_efficiency_scores_NoFloor(v) ==
    [i \in 1..Len(v) |-> Score(v[i].name, Round1(Min(v[i].score, U(100))))]

\* RouteData.validate_efficiency_scores
validate_efficiency_scores(v) ==
    [i \in 1..Len(v) |->
        Score(v[i].name, Round1(Min(Max(v[i].score, 0), U(100))))]

\* RouteData.validate_priority_zones accepts v
PriorityZonesOk(v) ==
    \A i \in 1..Len(v) :
        /\ 0 <= v[i].score /\ v[i].score <= U(100)
        /\ Lower(v[i].color) \in StatusColors

\* RouteData(...): active_routes ge=0, coverage ge=0 le=100
RouteData(active_routes, coverage, efficiency_scores, priority_zones) ==
    IF /\ active_routes >= 0
       /\ 0 <= coverage /\ coverage <= U(100)
       /\ PriorityZonesOk(priority_zones)
    THEN Ok([active_routes |-> active_routes,
             coverage |-> coverage,
             efficiency_scores |-> validate_efficiency_scores(efficiency_scores),
             priority_zones |-> priority_zones])
    ELSE Raise("ValidationError")

VehicleStatus(id, status, status_color, region, priority) ==
    [id |-> id, status |-> status, status_color |-> status_color,
     region |-> region, priority |-> priority]

\* MapIncident(...) passes validation: type 0..9, description min_length=1,
\* longitude and latitude in range
MapIncidentOk(m) ==
    /\ 0 <= m.type /\ m.type <= 9
    /\ Len(m.description) >= 1
    /\ -U(180) <= m.longitude /\ m.longitude <= U(180)
    /\ -U(90) <= m.latitude /\ m.latitude <= U(90)

\* the coordinate check without its latitude bound.  C11 depends on both
\* bounds.
GeoCoordOk_LongitudeOnly(c) ==
    /\ c.t = "pair"
    /\ -U(180) <= c.lon /\ c.lon <= U(180)

\* one coordinate passes MapRoute.validate_geometry
GeoCoordOk(c) ==
    /\ c.t = "pair"
    /\ -U(180) <= c.lon /\ c.lon <= U(180)
    /\ -U(90) <= c.lat /\ c.lat <= U(90)

\* MapRoute.validate_geometry accepts geometry v
validate_geometry(v) ==
    /\ v.t = "obj"
    /\ v.wrap = "Feature"
    /\ v.inner = "obj"
    /\ v.type = "LineString"
    /\ v.coordinates.t = "list"
    /\ Len(v.coordinates.items) >= 1
    /\ \A i \in 1..Len(v.coordinates.items) : GeoCoordOk(v.coordinates.items[i])

\* MapRoute(id, priority, geometry) passes validation: id a str of
\* min_length=1, priority an integer in 1..3
MapRouteOk(id, priority, geometry) ==
    /\ id.t \in {"text", "numstr"} /\ Len(Str(id)) >= 1
    /\ priority.t \in {"num", "numstr"}
    /\ priority.n % U(1) = 0
    /\ U(1) <= priority.n /\ priority.n <= U(3)
    /\ validate_geometry(geometry)

\* MapRoute(id=..., priority=..., geometry=...)
MapRoute(id, priority, geometry) ==
    IF MapRouteOk(id, priority, geometry)
    THEN Ok([id |-> Str(id), priority |-> Float(priority) \div U(1),
             geometry |-> geometry])
    ELSE Raise("ValidationError")

-----------------------------------------------------------------------------
(* DataTransformerTool._transform_traffic_data: the fixed default *)

DefaultZones ==
    <<Zone("Highway Network", U(80), "success"),
      Zone("Emergency Routes", U(70), "warning"),
      Zone("Commercial", U(60), "danger")>>

DefaultRouteData ==
    RouteData(1, U(75), <<Score("Route 1", U(85))>>, DefaultZones).val

DefaultFleetData ==
    [vehicles |-> <<VehicleStatus("Truck 1", "Active", "success", "Zone 1", "High")>>]

EmptyMapData == [routes |-> <<>>, incidents |-> <<>>]

\* has_map_data: the returned mapping has the key "map_data"
DefaultTraffic ==
    [route_data |-> DefaultRouteData, fleet_data |-> DefaultFleetData,
     map_data |-> EmptyMapData, has_map_data |-> TRUE]

-----------------------------------------------------------------------------
(* DataTransformerTool._transform_traffic_data: standardize_traffic_data *)

\* `not x` for a list-valued entry
ListFalsy(l) == l.t = "missing" \/ (l.t \in {"list", "strlist"} /\ l.items = <<>>)
\* len(x) raises TypeError
LenRaises(l) == l.t \in {"num", "null"}

\* standardize_traffic_data(data) raises: .get on a value that is a string
StdTrafficRaises(data) ==
    /\ data.routeOptimizationPlan.t # "missing"
    /\ \/ data.routeOptimizationPlan.t = "text"
       \/ data.routeOptimizationPlan.impact = "text"

\* standardized_data['currentTrafficFlow']
StdCurrentTraffic(data) ==
    IF data.routeOptimizationPlan.t # "missing"
    THEN IF data.routeOptimizationPlan.impact = "obj"
         THEN FlowOr(data.routeOptimizationPlan.flow)
         ELSE EmptyFlow
    ELSE IF data.currentTrafficFlow.t # "missing"
         THEN data.currentTrafficFlow
         ELSE EmptyFlow

\* standardized_data['optimizedRoutes']
StdOptimizedRoutes(data) ==
    IF data.routeOptimizationPlan.t # "missing"
    THEN data.routeOptimizationPlan.optimizedRoutes
    ELSE IF data.currentTrafficFlow.t # "missing"
         THEN data.optimized_route
         ELSE NoList

\* the loop that extracts route_points raises
RoutePointsRaise(l) ==
    \/ IterRaises(l)
    \/ \E i \in 1..Len(Items(l)) :
         /\ Items(l)[i].kind \in {"route", "legs"}
         /\ ~Items(l)[i].readable

-----------------------------------------------------------------------------
(* DataTransformerTool._transform_traffic_data: incidents for the map *)

\* parse_coordinates(coord_str): [ok, lat, lon]; ok is FALSE for (None, None)
parse_coordinates(c) ==
    IF /\ c.fmt \in {"comma_space", "comma"}
       /\ -U(90) <= c.lat /\ c.lat <= U(90)
       /\ -U(180) <= c.lon /\ c.lon <= U(180)
    THEN [ok |-> TRUE, lat |-> c.lat, lon |-> c.lon]
    ELSE [ok |-> FALSE, lat |-> 0, lon |-> 0]

\* the type code of an incident description
TypeCode(desc) ==
    CASE Lower(desc) = "road works" -> 8
      [] Lower(desc) = "road closed" -> 6
      [] Lower(desc) = "traffic jam" -> 9
      [] OTHER -> 1

\* the entry yields an element of map_incidents; any other entry is skipped
\* (a non-string raises inside the per-entry try and the loop continues)
YieldsIncident(e) ==
    e.t = "str" /\ e.parts = 2 /\ parse_coordinates(e.coord).ok

IncidentDict(e) ==
    [type |-> TypeCode(e.desc), description |-> e.desc,
     latitude |-> parse_coordinates(e.coord).lat,
     longitude |-> parse_coordinates(e.coord).lon]

ClosureDict(e) ==
    [type |-> 6, description |-> "Road Closed",
     latitude |-> parse_coordinates(e.coord).lat,
     longitude |-> parse_coordinates(e.coord).lon]

\* .get on 'Route Optimization Plan' or its 'Traffic Integration' raises
MapFlowRaises(td) ==
    /\ td.Route_Optimization_Plan.t # "missing"
    /\ \/ td.Route_Optimization_Plan.t = "text"
       \/ td.Route_Optimization_Plan.integration = "text"

\* current_flow, from which the map's incidents are read.  No mapping-valued
\* entry of the payload holds a 'currentTrafficFlow' key of its own
\* (routeOptimizationPlan holds it one level further down), so the search of
\* the nested structure finds nothing.
MapFlow(td) ==
    LET found ==
            IF td.Route_Optimization_Plan.t # "missing"
            THEN IF td.Route_Optimization_Plan.integration = "obj"
                 THEN FlowOr(td.Route_Optimization_Plan.flow)
                 ELSE EmptyFlow
            ELSE IF td.currentTrafficFlow.t # "missing"
                 THEN td.currentTrafficFlow
                 ELSE EmptyFlow
    IN  IF FlowFalsy(found) THEN FlowOr(td.currentTrafficFlow) ELSE found

\* x = d.get(key, []); if not x: x = d.get(capitalized key, [])
EitherList(primary, capitalized) ==
    IF ListFalsy(primary)
    THEN IF capitalized.t = "missing" THEN List(<<>>) ELSE capitalized
    ELSE primary

MapIncidentsRaise(td) ==
    \/ MapFlowRaises(td)
    \/ MapFlow(td).t = "text"
    \/ IterRaises(EitherList(MapFlow(td).incidents, MapFlow(td).Incidents))
    \/ IterRaises(EitherList(MapFlow(td).roadClosures, MapFlow(td).Road_Closures))

\* map_incidents
MapIncidents(td) ==
    LET incidents == Items(EitherList(MapFlow(td).incidents, MapFlow(td).Incidents))
        closures == Items(EitherList(MapFlow(td).roadClosures,
                                     MapFlow(td).Road_Closures))
        fromIncidents == SelectSeq(incidents, YieldsIncident)
        fromClosures == SelectSeq(closures, YieldsIncident)
    IN  [i \in 1..Len(fromIncidents) |-> IncidentDict(fromIncidents[i])]
        \o [i \in 1..Len(fromClosures) |-> ClosureDict(fromClosures[i])]

-----------------------------------------------------------------------------
(* DataTransformerTool._transform_traffic_data: routes for the map *)

\* an element of optimized_route.routes read as a route: it has no geometry
AsRoute(o) ==
    IF o.kind = "num" THEN NonDictRoute ELSE Route(Missing, Missing, NoGeometry)

\* routes: traffic_data['routes'], or when that is empty or absent the
\* 'routes' of the first mapping-valued entry that has one
RawRoutes(td) ==
    IF ListFalsy(td.routes) /\ td.optimized_route.t # "missing"
    THEN [t |-> td.optimized_route.t,
          items |-> [i \in 1..Len(td.optimized_route.items) |->
                        AsRoute(td.optimized_route.items[i])]]
    ELSE td.routes

\* the pre-check of one coordinate: "valid", "invalid", or "raises" (a
\* comparison of a string with a number)
CoordState(c) ==
    CASE c.t = "strpair" -> "raises"
      [] c.t = "pair" -> IF /\ -U(180) <= c.lon /\ c.lon <= U(180)
                            /\ -U(90) <= c.lat /\ c.lat <= U(90)
                         THEN "valid" ELSE "invalid"
      [] OTHER -> "invalid"

\* all(...) over the coordinates stops at the first one that is not valid
CoordsState(cs) ==
    IF \A i \in 1..Len(cs) : CoordState(cs[i]) = "valid" THEN "valid"
    ELSE LET first == CHOOSE i \in 1..Len(cs) :
                        /\ CoordState(cs[i]) # "valid"
                        /\ \A j \in 1..(i - 1) : CoordState(cs[j]) = "valid"
         IN  CoordState(cs[first])

\* what the validation loop does with one route: "keep" it in
\* validated_routes, "skip" it, or "raises"
RouteState(route) ==
    IF route.t # "obj" THEN "skip"
    ELSE LET g == route.geometry
         IN  IF g.t # "obj" THEN "skip"
             ELSE IF g.wrap = "Feature" /\ g.inner = "text" THEN "raises"
             ELSE IF g.wrap = "Feature" /\ g.inner = "missing" THEN "skip"
             ELSE IF /\ g.type = "LineString"
                     /\ g.coordinates.t \in {"missing", "list"}
                     /\ Len(Items(g.coordinates)) > 1
                  THEN IF CoordsState(g.coordinates.items) = "valid" THEN "keep"
                       ELSE IF CoordsState(g.coordinates.items) = "raises"
                            THEN "raises" ELSE "skip"
                  ELSE "skip"

KeepsRoute(route) == RouteState(route) = "keep"

\* the element appended to validated_routes for a kept route
ValidatedRoute(route) ==
    IF route.geometry.wrap = "Feature" THEN route
    ELSE Route(Get(route.id, Text("route1")), Get(route.priority, Num(U(1))),
               [route.geometry EXCEPT !.wrap = "Feature"])

validated_routes(td) ==
    LET kept == SelectSeq(Items(RawRoutes(td)), KeepsRoute)
    IN  [i \in 1..Len(kept) |-> ValidatedRoute(kept[i])]

\* the arguments MapRoute gets for the i-th validated route (i from 1)
MapRouteId(route, i) == Get(route.id, Text("route" \o ToString(i)))
MapRoutePriority(route, i) == Get(route.priority, Num(U(i)))

RoutesRaise(td) ==
    \/ IterRaises(RawRoutes(td))
    \/ \E i \in 1..Len(Items(RawRoutes(td))) :
         RouteState(Items(RawRoutes(td))[i]) = "raises"

MapRoutesRaise(td) ==
    \E i \in 1..Len(validated_routes(td)) :
        LET route == validated_routes(td)[i]
        IN  ~MapRouteOk(MapRouteId(route, i), MapRoutePriority(route, i),
                        route.geometry)

MapRoutes(td) ==
    [i \in 1..Len(validated_routes(td)) |->
        [id |-> Str(MapRouteId(validated_routes(td)[i], i)),
         priority |-> Float(MapRoutePriority(validated_routes(td)[i], i)) \div U(1),
         coordinates |-> validated_routes(td)[i].geometry.coordinates.items]]

-----------------------------------------------------------------------------
(* DataTransformerTool._transform_traffic_data *)

ListLen(l) == Len(Items(l))

\* active_routes counted from the incidents alone.  C23 depends on the road
\* closures being counted too.
ActiveRoutes_IncidentsOnly(td) ==
    Max(1, ListLen(StdCurrentTraffic(td).incidents))

\* active_routes = max(1, len(incidents_list) + len(road_closures))
ActiveRoutes(td) ==
    Max(1, ListLen(StdCurrentTraffic(td).incidents)
           + ListLen(StdCurrentTraffic(td).roadClosures))

\* coverage = min(100, max(0, (speed / 50) * 100))
Coverage(td) ==
    Min(U(100), Max(0, (Float(Get(StdCurrentTraffic(td).speed, Num(0))) * 100) \div 50))

\* the scores counted down from the route's number instead of from 0.  C24
\* depends on the first route scoring 85.
EfficiencyScores_FromOne(n) ==
    [k \in 1..n |->
        Score("Route " \o ToString(k), Min(U(85) - (k * U(5)), U(100)))]

\* min(85.0 - (i * 5), 100) for i in range(active_routes), keyed Route i+1
EfficiencyScores(n) ==
    [k \in 1..n |->
        Score("Route " \o ToString(k), Min(U(85) - ((k - 1) * U(5)), U(100)))]

\* the fleet with `i <= len(incidents_list)` in place of `<`.  C25 depends on
\* the comparison being strict.
Vehicles_Inclusive(n, nIncidents) ==
    [k \in 1..n |->
        VehicleStatus("Truck " \o ToString(k), "Active", "success",
                      "Zone " \o ToString(k),
                      IF k - 1 <= nIncidents THEN "High" ELSE "Medium")]

\* FleetData(vehicles=[VehicleStatus(...) for i in range(active_routes)])
Vehicles(n, nIncidents) ==
    [k \in 1..n |->
        VehicleStatus("Truck " \o ToString(k), "Active", "success",
                      "Zone " \o ToString(k),
                      IF k - 1 < nIncidents THEN "High" ELSE "Medium")]

\* some statement of the try block raises
TrafficRaises(td) ==
    \/ StdTrafficRaises(td)
    \/ StdCurrentTraffic(td).t = "text"
    \/ RoutePointsRaise(StdOptimizedRoutes(td))
    \/ LenRaises(StdCurrentTraffic(td).incidents)
    \/ LenRaises(StdCurrentTraffic(td).roadClosures)
    \/ ~FloatOk(Get(StdCurrentTraffic(td).speed, Num(0)))
    \/ MapIncidentsRaise(td)
    \/ RoutesRaise(td)
    \/ RouteData(ActiveRoutes(td), Coverage(td),
                 EfficiencyScores(ActiveRoutes(td)), DefaultZones).raised
    \/ MapRoutesRaise(td)
    \/ \E i \in 1..Len(MapIncidents(td)) : ~MapIncidentOk(MapIncidents(td)[i])

\* _transform_traffic_data from standardize_traffic_data on, td a mapping
TrafficResult(td) ==
    IF TrafficRaises(td) THEN DefaultTraffic
    ELSE [route_data |-> RouteData(ActiveRoutes(td), Coverage(td),
                                   EfficiencyScores(ActiveRoutes(td)),
                                   DefaultZones).val,
          fleet_data |-> [vehicles |->
                            Vehicles(ActiveRoutes(td),
                                     ListLen(StdCurrentTraffic(td).incidents))],
          map_data |-> [routes |-> MapRoutes(td),
                        incidents |-> MapIncidents(td)],
          has_map_data |-> TRUE]

\* _transform_traffic_data(traffic_data), traffic_data a mapping
transform_traffic_data(td) ==
    IF td = EmptyTraffic THEN DefaultTraffic ELSE TrafficResult(td)

-----------------------------------------------------------------------------
(* OperationalData *)

\* validate_and_enhance_alerts with accumulation >= 20 in place of
\* accumulation > 20.  C8 depends on the comparison being strict.
validate_and_enhance_alerts_AtLeast20(v, resource_data, weather) ==
    v
    \o (IF resource_data.salt_level < U(30)
        THEN <<MkAlert("warning", "Salt inventory critical", resource_data.salt_level)>>
        ELSE <<>>)
    \o (IF resource_data.fuel_level < U(30)
        THEN <<MkAlert("warning", "Fuel inventory critical", resource_data.fuel_level)>>
        ELSE <<>>)
    \o (IF weather.accumulation >= U(20)
        THEN <<MkAlert("danger", "Heavy snow accumulation", weather.accumulation)>>
        ELSE <<>>)
    \o (IF weather.current_temp < -U(20)
        THEN <<MkAlert("warning", "Extreme cold temperature", weather.current_temp)>>
        ELSE <<>>)

\* OperationalData.validate_and_enhance_alerts(v, values)
validate_and_enhance_alerts(v, resource_data, weather) ==
    v
    \o (IF resource_data.salt_level < U(30)
        THEN <<MkAlert("warning", "Salt inventory critical", resource_data.salt_level)>>
        ELSE <<>>)
    \o (IF resource_data.fuel_level < U(30)
        THEN <<MkAlert("warning", "Fuel inventory critical", resource_data.fuel_level)>>
        ELSE <<>>)
    \o (IF weather.accumulation > U(20)
        THEN <<MkAlert("danger", "Heavy snow accumulation", weather.accumulation)>>
        ELSE <<>>)
    \o (IF weather.current_temp < -U(20)
        THEN <<MkAlert("warning", "Extreme cold temperature", weather.current_temp)>>
        ELSE <<>>)

\* OperationalData(weather_data, resource_data, route_data, fleet_data,
\* map_data).dict(): alerts_data is not passed and defaults to []
OperationalData(weather, resource_data, route_data, fleet_data, map_data) ==
    [weather_data |-> weather,
     resource_data |-> resource_data,
     route_data |-> route_data,
     fleet_data |-> fleet_data,
     alerts_data |-> validate_and_enhance_alerts(<<>>, resource_data, weather),
     map_data |-> map_data]

\* OperationalData(...) as a constructor call; extra tells that a keyword
\* that is no field was passed (Config.extra = 'forbid')
NewOperationalData(weather, resource_data, route_data, fleet_data, map_data, extra) ==
    IF extra THEN Raise("ValidationError")
    ELSE Ok(OperationalData(weather, resource_data, route_data, fleet_data,
                            map_data))

\* setattr(snapshot, name, value) under Config.validate_assignment: the value
\* is validated as the field's type and stored; only an assignment to
\* alerts_data runs validate_and_enhance_alerts, on the other fields' current
\* values.  A name that is no field raises ValueError.
OperationalData_setattr(snapshot, name, value) ==
    CASE name = "resource_data" -> Ok([snapshot EXCEPT !.resource_data = value])
      [] name = "weather_data" -> Ok([snapshot EXCEPT !.weather_data = value])
      [] name = "alerts_data" ->
            Ok([snapshot EXCEPT !.alerts_data =
                    validate_and_enhance_alerts(value, snapshot.resource_data,
                                                snapshot.weather_data)])
      [] OTHER -> Raise("ValueError")

-----------------------------------------------------------------------------
(* safe_parse_json on the four payloads *)

\* the mapping {} as the payload named by payload
EmptyDict(payload) ==
    CASE payload = "weather" -> EmptyWeather
      [] payload = "fuel" -> EmptyFuel
      [] payload = "salt" -> EmptySalt
      [] payload = "traffic" -> EmptyTraffic

\* the loop over data.items() that decodes the string values of mapping o
NestItems(payload, o) ==
    CASE payload = "weather" -> NestWeather(o)
      [] payload = "fuel" -> NestFuel(o)
      [] payload = "salt" -> NestSalt(o)
      [] payload = "traffic" -> NestTraffic(o)

\* safe_parse_json(json_str, nested); payload names which argument of _run
\* json_str is.  data.items() on a decoded value that is not a mapping
\* raises AttributeError, which the except clause (json.JSONDecodeError
\* only) does not catch.
safe_parse_json(json_str, nested, payload) ==
    IF NoText(json_str).raised THEN NoText(json_str)
    ELSE IF NoText(json_str).val THEN Ok(Obj(EmptyDict(payload)))
    ELSE LET data == json_loads(json_str)
         IN  IF data.raised THEN Ok(Obj(EmptyDict(payload)))
             ELSE IF nested
                  THEN IF data.val.t = "obj"
                       THEN Ok(Obj(NestItems(payload, data.val.o)))
                       ELSE Raise("AttributeError")
                  ELSE Ok(data.val)

-----------------------------------------------------------------------------
(* DataTransformerTool._run *)

\* a chart label: entry.time.split('T')[1].split('-')[0] if 'T' in
\* entry.time else entry.time; afterT tells which
ChartLabel(ts) == [time |-> ts, afterT |-> ContainsT(ts)]

Dataset(label, data) == [label |-> label, data |-> data]

\* the chart _run builds from the validated forecast, JSON-encoded
WeatherChart(forecast) ==
    Json([labels |-> [i \in 1..Len(forecast) |-> ChartLabel(forecast[i].time)],
          datasets |->
            <<Dataset("Temperature", [i \in 1..Len(forecast) |-> forecast[i].temp]),
              Dataset("Snowfall", [i \in 1..Len(forecast) |-> forecast[i].snowfall])>>])

\* the document with a chart that was not passed through json.dumps.  C4
\* depends on weather_chart_data being JSON text.
WithChart_NotEncoded(d, chart) ==
    [weather_data |-> d.weather_data, resource_data |-> d.resource_data,
     route_data |-> d.route_data, fleet_data |-> d.fleet_data,
     alerts_data |-> d.alerts_data, map_data |-> d.map_data,
     weather_chart_data |-> [k |-> "dict", v |-> chart.v]]

\* d with the key weather_chart_data added
WithChart(d, chart) ==
    [weather_data |-> d.weather_data, resource_data |-> d.resource_data,
     route_data |-> d.route_data, fleet_data |-> d.fleet_data,
     alerts_data |-> d.alerts_data, map_data |-> d.map_data,
     weather_chart_data |-> chart]

\* the except branch of _run
FallbackDocument ==
    WithChart(
        OperationalData(
            [current_temp |-> 0, current_conditions |-> "Error",
             accumulation |-> 0, forecast |-> <<>>,
             alerts |-> <<MkAlert("warning", "Data validation error", 0)>>],
            UnknownInventory, DefaultRouteData, DefaultFleetData, EmptyMapData),
        WeatherChart(<<>>))

\* the try branch of _run
NormalDocument(weather, inventory, traffic) ==
    WithChart(
        OperationalData(weather, inventory, traffic.route_data,
                        traffic.fleet_data, traffic.map_data),
        WeatherChart(weather.forecast))

\* _run(weather_data, fuel_data, salt_data, traffic_data): the JSON text it
\* returns, or the exception that escapes
run(weather, fuel, salt, traffic) ==
    LET weather_parsed == safe_parse_json(weather, TRUE, "weather")
        fuel_parsed == safe_parse_json(fuel, TRUE, "fuel")
        salt_parsed == safe_parse_json(salt, TRUE, "salt")
        traffic_parsed == safe_parse_json(traffic, TRUE, "traffic")
    IN  IF weather_parsed.raised THEN weather_parsed
        ELSE IF fuel_parsed.raised THEN fuel_parsed
        ELSE IF salt_parsed.raised THEN salt_parsed
        ELSE IF traffic_parsed.raised THEN traffic_parsed
        ELSE LET weather_transformed == transform_weather_data(weather_parsed.val.o)
                 inventory_transformed ==
                     transform_inventory_data(fuel_parsed.val.o, salt_parsed.val.o)
                 traffic_transformed == transform_traffic_data(traffic_parsed.val.o)
             IN  IF traffic_transformed.has_map_data
                 THEN Ok(Json(Obj(NormalDocument(weather_transformed,
                                                 inventory_transformed,
                                                 traffic_transformed))))
                 ELSE Ok(Json(Obj(FallbackDocument)))

-----------------------------------------------------------------------------
(* The transformers called with any argument *)

\* a mapping passed as such (not as JSON text)
Dict(o) == [k |-> "dict", v |-> Obj(o)]

\* `not x` for an argument: None, '' or the mapping {}
ArgFalsy(arg, empty) ==
    \/ arg.k \in {"none", "empty"}
    \/ arg.k = "dict" /\ arg.v.o = empty

\* _transform_weather_data(weather_data).  A non-empty str never gets
\* through: text json.loads rejects leaves standardize_weather_data's result
\* without 'currentConditions', and for any other text weather_data.get
\* raises AttributeError when the alerts are built.
transform_weather_data_of(arg) ==
    IF ArgFalsy(arg, EmptyWeather) THEN NoDataWeather
    ELSE IF arg.k = "dict"
         THEN transform_weather_data(arg.v.o)
         ELSE ErrorWeather

\* fuel_data / salt_data after `if isinstance(..., str)`: the decoded value,
\* or fallback when json.loads rejects the text
InventoryMapping(arg, fallback) ==
    IF arg.k \in {"dict", "json"} THEN arg.v ELSE Obj(fallback)

\* _transform_inventory_data(fuel_data, salt_data)
transform_inventory_data_of(fuel_arg, salt_arg) ==
    IF ArgFalsy(fuel_arg, EmptyFuel) \/ ArgFalsy(salt_arg, EmptySalt)
    THEN UnknownInventory
    ELSE LET fuel == InventoryMapping(fuel_arg,
                         [EmptyFuel EXCEPT !.fuel_level = Num(U(50))])
             salt == InventoryMapping(salt_arg,
                         [EmptySalt EXCEPT !.salt_level = Num(U(50))])
         IN  IF fuel.t # "obj" \/ salt.t # "obj" THEN UnknownInventory
             ELSE InventoryLevels(fuel.o, salt.o)

\* what _transform_traffic_data returns for text json.loads rejects: plain
\* mappings for route_data and fleet_data, and no key "map_data"
InvalidJsonTraffic ==
    [route_data |-> DefaultRouteData, fleet_data |-> DefaultFleetData,
     map_data |-> EmptyMapData, has_map_data |-> FALSE]

\* _transform_traffic_data(traffic_data).  Of the JSON texts that are no
\* mapping, an array goes through as a payload without any key and every
\* other raises in standardize_traffic_data.
transform_traffic_data_of(arg) ==
    IF ArgFalsy(arg, EmptyTraffic) THEN DefaultTraffic
    ELSE IF arg.k \notin {"dict", "json"} THEN InvalidJsonTraffic
    ELSE IF arg.v.t = "obj" THEN TrafficResult(arg.v.o)
    ELSE IF arg.v.t = "arr" THEN TrafficResult(EmptyTraffic)
    ELSE DefaultTraffic

-----------------------------------------------------------------------------
(* ReportGeneratorTool._run *)

\* data['content']: falsy tells `not content`, renders is FALSE when
\* formatting one of its sections raises
Content(falsy, renders) == [falsy |-> falsy, renders |-> renders]

\* ReportGeneratorTool._run(tool_input): the message it returns.  writable
\* is FALSE when writing the report file fails.
ReportGeneratorTool_run(tool_input, writable) ==
    IF tool_input.k = "none" THEN "Error generating report"
    ELSE IF tool_input.k # "json" THEN "Error parsing JSON input"
    ELSE IF tool_input.v.t # "obj" THEN "Error generating report"
    ELSE IF "content" \notin DOMAIN tool_input.v.o
         THEN "Error: No content found in the input data"
    ELSE IF tool_input.v.o.content.falsy
         THEN "Error: No content found in the input data"
    ELSE IF ~tool_input.v.o.content.renders THEN "Error generating report"
    ELSE IF ~writable THEN "Error writing report"
    ELSE "HTML report generated successfully"

-----------------------------------------------------------------------------
(* The payloads the pipeline is run on *)

MaxForecast == 1     \* longest forecast list
MaxAlerts == 2       \* longest upstream alert list
MaxIncidents == 20   \* longest list of well-formed incidents
MaxMixed == 2        \* longest list of arbitrary incidents or closures
MaxRoutes == 2       \* longest list of arbitrary routes
MaxValidRoutes == 4  \* longest list of valid routes

SeqsUpTo(S, n) == UNION {[1..k -> S] : k \in 0..n}
Repeat(x, n) == [i \in 1..n |-> x]

\* what a str argument can hold besides the JSON text of a mapping
NonJsonTexts == {None, Empty, Blank, Garbage}
NonObjectTexts == {Json(v) : v \in NonObjects}

(* weather *)
ForecastEntries ==
    {FEntry(TimeOf("isoTZ"), Num(-1242), Num(23)),
     FEntry(TimeOf("isoSpace"), Num(-1242), Num(23)),
     FEntry(TimeOf("isoT"), Num(U(1)), Num(0)),
     FEntry(TimeOf("tod"), Num(-972), Num(542)),
     FEntry(TimeOf("later"), Num(U(2)), Num(U(3))),
     FEntry(TimeOf("junk"), Num(0), Num(0)),
     FEntry(NoTime, Missing, Missing),
     FEntry(NumTime, Num(0), Num(0)),
     FEntry(TimeOf("isoTZ"), Num(0), Num(-U(1))),
     FEntry(TimeOf("isoTZ"), Text("mild"), Num(0)),
     NonDictEntry}

UpstreamAlerts ==
    {Alert(Text("warning"), Text("Snow expected")),
     Alert(Text("danger"), Text("Blizzard")),
     Alert(Text("info"), Text("Plows out")),
     Alert(Text("high"), Text("Icy conditions alert")),
     Alert(Text("WARNING"), Text("Snow expected")),
     Alert(Missing, Missing),
     Alert(Text("warning"), Num(U(5))),
     NonDictAlert}

Temperatures ==
    {Missing, Num(-972), Num(-U(20)), Num(-2001), Num(-U(25)), NumStr(-U(30)),
     Text("cold"), Null}
Accumulations ==
    {Missing, Num(0), Num(U(20)), Num(2001), Num(U(25)), NumStr(U(30)),
     Num(-U(1)), Text("deep")}

FlatWeather(conditions, temp, accumulation, forecast, alerts) ==
    [EmptyWeather EXCEPT !.current_conditions = conditions,
                         !.current_temp = temp,
                         !.accumulation = accumulation,
                         !.forecast = forecast,
                         !.alerts = alerts]

\* the weather payload of the specification's end-to-end example
ExampleWeather ==
    FlatWeather(Text("Icy roads"), Num(-972), Num(0), List(<<>>), List(<<>>))

ForecastLists ==
    {List(f) : f \in SeqsUpTo(ForecastEntries, MaxForecast)}
    \cup {NoList, NumList,
          StrList(<<FEntry(TimeOf("isoTZ"), Num(-1242), Num(23))>>)}


AlertLists ==
    {List(a) : a \in SeqsUpTo(UpstreamAlerts, MaxAlerts)} \cup {NoList, NumList}

WeatherObjects ==
    \* every temperature with every accumulation
    {FlatWeather(Text("Icy roads"), t, a, NoList, NoList) :
        t \in Temperatures, a \in Accumulations}
    \* every forecast
    \cup {FlatWeather(Text("icy"), Num(-964), Num(0), f, NoList) :
        f \in ForecastLists}
    \* every alert list, with and without the derived weather alerts
    \cup {FlatWeather(Text("Icy roads"), t, a, List(<<>>), al) :
        t \in {Num(-972), Num(-U(25))}, a \in {Num(0), Num(U(25))},
        al \in AlertLists}
    \* no current_conditions key; an empty description; the nested shape; the
    \* currentConditions shape; keys the transformer does not know; {}
    \cup {FlatWeather(Missing, Num(-972), Num(U(25)), NoList, NoList),
          FlatWeather(Text(""), Num(-972), Num(0), NoList, NoList),
          FlatWeather(Null, Num(-972), Num(0), NoList, NoList),
          [EmptyWeather EXCEPT !.current_weather_conditions =
              CWC(Num(-U(5)), Text("Heavy snow"), Num(U(12)),
                  List(<<FEntry(TimeOf("isoTZ"), Num(-U(5)), Num(U(2)))>>))],
          [EmptyWeather EXCEPT !.currentConditions =
              CC(Num(-U(22)), Text("Snow"), Num(U(21)))],
          [EmptyWeather EXCEPT !.currentConditions =
              CC(Missing, Missing, Missing)],
          [EmptyWeather EXCEPT !.currentConditions =
              [NoCC EXCEPT !.t = "text"]],
          [EmptyWeather EXCEPT !.other = TRUE],
          EmptyWeather}

WeatherTexts ==
    NonJsonTexts \cup NonObjectTexts \cup {Json(Obj(o)) : o \in WeatherObjects}

(* inventory *)
Quantities == {Missing, Num(0), Num(U(100)), Num(U(50)), Num(-U(5)), Text("full"), Null}
Levels == {Num(U(60)), Num(U(75)), Num(U(20)), Num(U(150)), NumStr(U(40))}

FuelObjects ==
    {[EmptyFuel EXCEPT !.diesel = d, !.gasoline = g] : d, g \in Quantities}
    \cup {[EmptyFuel EXCEPT !.fuel_level = l] : l \in Levels}
    \cup {[EmptyFuel EXCEPT !.fuel_level = Num(U(60)), !.diesel = Num(U(100))],
          [EmptyFuel EXCEPT !.other = TRUE]}

SaltObjects ==
    {[EmptySalt EXCEPT !.rockSalt = r, !.treatedSalt = x] : r, x \in Quantities}
    \cup {[EmptySalt EXCEPT !.salt_level = l] : l \in Levels}
    \cup {[EmptySalt EXCEPT !.salt_level = Num(U(75)), !.rockSalt = Num(U(10))],
          [EmptySalt EXCEPT !.other = TRUE]}

ExampleFuel == [EmptyFuel EXCEPT !.fuel_level = Num(U(60))]
ExampleSalt == [EmptySalt EXCEPT !.salt_level = Num(U(75))]

FuelTexts == NonJsonTexts \cup NonObjectTexts \cup {Json(Obj(o)) : o \in FuelObjects}
SaltTexts == NonJsonTexts \cup NonObjectTexts \cup {Json(Obj(o)) : o \in SaltObjects}

\* inventory payloads that between them give every pair of levels the
\* transformer can report
InventoryPairs ==
    {<<Json(Obj([EmptyFuel EXCEPT !.diesel = d])),
       Json(Obj([EmptySalt EXCEPT !.rockSalt = r]))>> :
        d, r \in {Num(0), Num(U(100))}}
    \cup {<<Json(Obj(ExampleFuel)), Json(Obj(ExampleSalt))>>, <<Empty, Empty>>}


(* traffic *)
GoodIncident == Incident("Accident", Coords("comma_space", 4681, -7121))
GoodClosure == Incident("Road Closed", Coords("comma_space", 4682, -7122))

IncidentKinds ==
    {GoodIncident,
     Incident("Road works", Coords("comma", 4680, -7120)),
     Incident("Traffic jam", Coords("comma_space", -U(90), U(180))),
     Incident("Accident", Coords("comma_space", U(95), -7121)),
     Incident("Accident", Coords("comma", 4681, -U(181))),
     Incident("Accident", Coords("none", 0, 0)),
     Incident("Accident", Coords("three", 0, 0)),
     Incident("Accident", Coords("nonnum", 0, 0)),
     Incident("", Coords("comma_space", 4681, -7121)),
     [GoodIncident EXCEPT !.parts = 3],
     NoAtIncident("Accident"),
     NonStrIncident}

ClosureKinds ==
    {GoodClosure,
     Incident("Road Closed", Coords("comma_space", U(91), 0)),
     NoAtIncident("Road Closed"),
     NonStrIncident}

Speeds ==
    {Missing, Num(0), Num(U(25)), Num(3750), Num(U(50)), Num(U(80)),
     Num(-U(10)), NumStr(U(30)), Text("fast"), Null}

Flows ==
    \* every speed
    {Flow(sp, List(<<GoodIncident>>), NoList) : sp \in Speeds}
    \* every number of well-formed incidents, with and without a closure
    \cup {Flow(Num(U(40)), List(Repeat(GoodIncident, n)), c) :
            n \in 0..MaxIncidents,
            c \in {NoList, List(<<>>), List(<<GoodClosure>>)}}
    \* every short list of incidents with every short list of closures
    \cup {Flow(Num(U(40)), List(i), List(c)) :
            i \in SeqsUpTo(IncidentKinds, MaxMixed),
            c \in SeqsUpTo(ClosureKinds, 1)}
    \* lists that are no lists, capitalized keys, no key at all
    \cup {Flow(Num(U(40)), NumList, NoList),
          Flow(Num(U(40)), NoList, NumList),
          [Flow(Num(U(40)), NoList, NoList) EXCEPT
              !.Incidents = List(<<GoodIncident>>),
              !.Road_Closures = List(<<GoodClosure>>)],
          EmptyFlow, TextFlow}

LineCoords == <<Pair(-7121, 4681), Pair(-7122, 4682)>>

\* a valid route with neither id nor priority of its own
PlainRoute == Route(Missing, Missing, Feature("LineString", List(LineCoords)))

RouteKinds ==
    {PlainRoute,
     Route(Text("r1"), Num(U(2)), Feature("LineString", List(LineCoords))),
     Route(Text("r2"), Missing, Bare("LineString", List(LineCoords))),
     Route(Missing, Num(U(3)), Bare("LineString", List(LineCoords))),
     \* a longitude of 200
     Route(Text("r3"), Num(U(1)),
           Feature("LineString", List(<<Pair(U(200), 4680), Pair(-7122, 4682)>>))),
     Route(Text("r4"), Num(U(1)),
           Bare("LineString", List(<<Pair(-7121, 4681), Pair(-7122, U(91))>>))),
     \* one coordinate only; none; the wrong arity; not numbers
     Route(Text("r5"), Num(U(1)), Feature("LineString", List(<<Pair(-7121, 4681)>>))),
     Route(Text("r6"), Num(U(1)), Feature("LineString", List(<<>>))),
     Route(Text("r7"), Num(U(1)),
           Feature("LineString", List(<<Pair(-7121, 4681), BadCoord("triple")>>))),
     Route(Text("r8"), Num(U(1)),
           Feature("LineString", List(<<BadCoord("strpair"), Pair(-7121, 4681)>>))),
     \* not a LineString; a Feature without geometry; no geometry
     Route(Text("r9"), Num(U(1)), Feature("Point", List(LineCoords))),
     Route(Text("r10"), Num(U(1)), Geometry("Feature", "missing", "", NoList)),
     Route(Text("r11"), Num(U(1)), Geometry("Feature", "text", "", NoList)),
     Route(Text("r12"), Num(U(1)), NoGeometry),
     \* an empty id; priorities out of range
     Route(Text(""), Num(U(1)), Feature("LineString", List(LineCoords))),
     Route(Text("r13"), Num(U(4)), Feature("LineString", List(LineCoords))),
     Route(Text("r14"), Num(150), Bare("LineString", List(LineCoords))),
     NonDictRoute}

RouteLists ==
    {List(r) : r \in SeqsUpTo(RouteKinds, MaxRoutes)}
    \cup {List(Repeat(PlainRoute, n)) : n \in 0..MaxValidRoutes}
    \cup {NoList, NumList}

DirectTraffic(flow) == [EmptyTraffic EXCEPT !.currentTrafficFlow = flow]
NestedTraffic(flow) ==
    [EmptyTraffic EXCEPT !.routeOptimizationPlan = Plan("obj", flow, NoList)]

\* the traffic payload of the specification's end-to-end example
ExampleTraffic ==
    [EmptyTraffic EXCEPT !.active_routes = Num(U(2)), !.coverage = Num(U(75))]

BaseFlow == Flow(Num(U(40)), List(<<GoodIncident>>), List(<<GoodClosure>>))

OptRouteLists ==
    {List(<<OptRoute(k, r)>>) : k \in {"route", "legs", "plain", "num"},
                                r \in BOOLEAN}
    \cup {NoList, NumList}

TrafficObjects ==
    {DirectTraffic(f) : f \in Flows}
    \cup {NestedTraffic(f) : f \in Flows}
    \* routes, beside a flow and alone
    \cup {[DirectTraffic(BaseFlow) EXCEPT !.routes = r] : r \in RouteLists}
    \cup {[EmptyTraffic EXCEPT !.routes = r] : r \in RouteLists}
    \* the routes of a TomTom response
    \cup {[DirectTraffic(BaseFlow) EXCEPT !.optimized_route = o] :
            o \in OptRouteLists}
    \cup {[NestedTraffic(BaseFlow) EXCEPT
              !.routeOptimizationPlan.optimizedRoutes = o,
              !.optimized_route = List(<<OptRoute("legs", TRUE)>>)] :
            o \in OptRouteLists}
    \* plans that are no mappings, the capitalized plan, direct metrics,
    \* unknown keys, {}
    \cup {[EmptyTraffic EXCEPT !.routeOptimizationPlan = [NoPlan EXCEPT !.t = "text"]],
          [EmptyTraffic EXCEPT !.routeOptimizationPlan = Plan("text", NoFlow, NoList)],
          [EmptyTraffic EXCEPT !.routeOptimizationPlan = Plan("missing", NoFlow, NoList)],
          [EmptyTraffic EXCEPT !.Route_Optimization_Plan =
              CapsPlan([Flow(Num(U(40)), NoList, NoList) EXCEPT
                          !.Incidents = List(<<GoodIncident>>),
                          !.Road_Closures = List(<<GoodClosure>>)])],
          [DirectTraffic(BaseFlow) EXCEPT !.Route_Optimization_Plan =
              [NoCapsPlan EXCEPT !.t = "text"]],
          ExampleTraffic,
          [EmptyTraffic EXCEPT !.active_routes = Num(U(8)), !.coverage = Num(U(75)),
                               !.other = TRUE],
          [EmptyTraffic EXCEPT !.other = TRUE],
          EmptyTraffic}

TrafficTexts ==
    NonJsonTexts \cup NonObjectTexts \cup {Json(Obj(o)) : o \in TrafficObjects}


(* invocations *)
CoreTexts(example) ==
    NonJsonTexts \cup {Json([t |-> "arr"]), Json([t |-> "null"]), Json(Obj(example))}

\* <<weather_data, fuel_data, salt_data, traffic_data>>
Invocations ==
    \* every combination of absent, empty, malformed, non-mapping and
    \* well-formed arguments
    (CoreTexts(ExampleWeather) \X CoreTexts(ExampleFuel)
        \X CoreTexts(ExampleSalt) \X CoreTexts(ExampleTraffic))
    \* every weather payload with every pair of inventory levels
    \cup {<<w, p[1], p[2], Json(Obj(ExampleTraffic))>> :
            w \in WeatherTexts, p \in InventoryPairs}
    \* every fuel payload with every salt payload
    \cup {<<Json(Obj(ExampleWeather)), f, s, Json(Obj(ExampleTraffic))>> :
            f \in FuelTexts, s \in SaltTexts}
    \* every traffic payload
    \cup {<<Json(Obj(ExampleWeather)), Json(Obj(ExampleFuel)),
            Json(Obj(ExampleSalt)), t>> : t \in TrafficTexts}

(* component calls *)
MaxCoords == 2       \* longest coordinate list of a geometry
MaxScores == 2       \* longest efficiency_scores / priority_zones mapping

ParseTexts ==
    NonJsonTexts \cup NonObjectTexts
    \cup {Json(Obj(o)) : o \in {EmptyWeather, ExampleWeather,
            FlatWeather(Text("icy"), NumStr(-964), NumStr(U(30)),
                        StrList(<<FEntry(TimeOf("isoTZ"), Num(-1242), Num(23))>>),
                        NoList)}}

Strs(objects) == NonJsonTexts \cup NonObjectTexts \cup {Json(Obj(o)) : o \in objects}

WeatherArgs ==
    {Dict(o) : o \in WeatherObjects}
    \cup Strs({EmptyWeather, ExampleWeather})

FuelArgs ==
    {Dict(o) : o \in FuelObjects} \cup Strs({EmptyFuel, ExampleFuel})
SaltArgs ==
    {Dict(ExampleSalt), Dict(EmptySalt),
     Dict([EmptySalt EXCEPT !.rockSalt = Num(U(100))]),
     Dict([EmptySalt EXCEPT !.rockSalt = Text("full")])}
    \cup Strs({EmptySalt, [EmptySalt EXCEPT !.rockSalt = Num(U(100))]})

TrafficArgs ==
    {Dict(o) : o \in TrafficObjects}
    \cup Strs({EmptyTraffic, ExampleTraffic, DirectTraffic(BaseFlow)})

CoordKinds ==
    {Pair(-7121, 4681), Pair(-U(180), -U(90)), Pair(U(180), U(90)),
     Pair(U(200), 4680), Pair(-18001, 0), Pair(0, U(91)), Pair(0, -9001),
     BadCoord("triple"), BadCoord("num"), BadCoord("strpair")}

Geometries ==
    {Feature("LineString", List(cs)) : cs \in SeqsUpTo(CoordKinds, MaxCoords)}
    \cup {Bare("LineString", List(LineCoords)),
          Feature("Point", List(LineCoords)),
          Feature("", List(LineCoords)),
          Feature("LineString", NoList),
          Feature("LineString", [NoList EXCEPT !.t = "text"]),
          Geometry("Feature", "missing", "LineString", List(LineCoords)),
          Geometry("Feature", "text", "LineString", List(LineCoords)),
          [NoGeometry EXCEPT !.t = "text"],
          NoGeometry}

RouteIds == {Text("route1"), Text("")}
RoutePriorities == {Num(U(1)), Num(U(4))}

Percentages == {-U(5), -1, 0, 3333, U(50), U(100), 10001, U(150)}
RouteCounts == {0, 2, -1}
ScoreLists ==
    {[i \in 1..Len(v) |-> Score("Route " \o ToString(i), v[i])] :
        v \in SeqsUpTo({-U(5), 8555, U(120)}, MaxScores)}
ZoneLists ==
    {[i \in 1..Len(v) |-> Zone("Zone " \o ToString(i), v[i][1], v[i][2])] :
        v \in SeqsUpTo({<<U(80), "success">>, <<-U(1), "warning">>,
                        <<U(120), "danger">>, <<U(60), "high">>}, MaxScores)}

ReportInputs ==
    NonJsonTexts \cup NonObjectTexts
    \cup {Json(Obj([content |-> Content(f, r)])) : f, r \in BOOLEAN}
    \cup {Json(Obj(FallbackDocument))}

\* the sub-models a snapshot is assembled from or assigned
SnapshotWeathers ==
    {[current_temp |-> t, current_conditions |-> "Snow", accumulation |-> a,
      forecast |-> <<>>, alerts |-> <<>>] :
        t \in {-U(25), -U(20), -U(5)}, a \in {0, U(20), U(25)}}
SnapshotResources ==
    {ResourceData(salt_level, fuel_level,
                  <<DepotLabel(salt_level, fuel_level)>>).val :
        salt_level \in {U(10), U(30), U(50)}, fuel_level \in {U(10), U(50)}}

\* what a caller may assign to a snapshot: a field and a valid value for it,
\* or a name that is no field
Assignments ==
    {<<"resource_data", r>> : r \in SnapshotResources}
    \cup {<<"weather_data", w>> : w \in SnapshotWeathers}
    \cup {<<"alerts_data", <<>>>>, <<"notes", <<>>>>}

-----------------------------------------------------------------------------
(* The orchestrator calls _run once per reporting cycle *)

NoOutcome == [raised |-> FALSE, val |-> None]
NoReport == ""
NoCall == [op |-> "", args |-> <<>>]

Init ==
    /\ pc = "idle"
    /\ weather_data = None
    /\ fuel_data = None
    /\ salt_data = None
    /\ traffic_data = None
    /\ outcome = NoOutcome
    /\ report = NoReport
    /\ call = NoCall
    /\ result = NoOutcome

\* the orchestrator hands the four upstream results to _run
Invoke ==
    /\ pc = "idle"
    /\ \E inv \in Invocations :
         /\ weather_data' = inv[1]
         /\ fuel_data' = inv[2]
         /\ salt_data' = inv[3]
         /\ traffic_data' = inv[4]
    /\ pc' = "called"
    /\ UNCHANGED <<outcome, report, call, result>>

\* DataTransformerTool._run
Run ==
    /\ pc = "called"
    /\ outcome' = run(weather_data, fuel_data, salt_data, traffic_data)
    /\ pc' = IF outcome'.raised THEN "raised" ELSE "returned"
    /\ UNCHANGED <<weather_data, fuel_data, salt_data, traffic_data,
                   report, call, result>>

\* the document goes unchanged to ReportGeneratorTool._run
GenerateReport ==
    /\ pc = "returned"
    /\ \E writable \in BOOLEAN :
         report' = ReportGeneratorTool_run(outcome.val, writable)
    /\ pc' = "reported"
    /\ UNCHANGED <<weather_data, fuel_data, salt_data, traffic_data, outcome,
                   call, result>>

\* the cycle ends; the next one starts from fresh inputs
NextCycle ==
    /\ pc \in {"returned", "raised", "reported"}
    /\ pc' = "idle"
    /\ weather_data' = None
    /\ fuel_data' = None
    /\ salt_data' = None
    /\ traffic_data' = None
    /\ outcome' = NoOutcome
    /\ report' = NoReport
    /\ UNCHANGED <<call, result>>

Next == Invoke \/ Run \/ GenerateReport \/ NextCycle

Spec == Init /\ [][Next]_vars

-----------------------------------------------------------------------------
(* Each component called on its own *)

Pipeline == <<weather_data, fuel_data, salt_data, traffic_data, outcome, report>>

CallSafeParseJson ==
    /\ pc = "idle"
    /\ \E json_str \in ParseTexts, nested \in BOOLEAN :
         /\ call' = [op |-> "safe_parse_json", args |-> <<json_str, nested>>]
         /\ result' = safe_parse_json(json_str, nested, "weather")
    /\ pc' = "done"
    /\ UNCHANGED Pipeline

CallTransformWeather ==
    /\ pc = "idle"
    /\ \E arg \in WeatherArgs :
         /\ call' = [op |-> "_transform_weather_data", args |-> <<arg>>]
         /\ result' = Ok(transform_weather_data_of(arg))
    /\ pc' = "done"
    /\ UNCHANGED Pipeline

CallTransformInventory ==
    /\ pc = "idle"
    /\ \E fuel_arg \in FuelArgs, salt_arg \in SaltArgs :
         /\ call' = [op |-> "_transform_inventory_data", args |-> <<fuel_arg, salt_arg>>]
         /\ result' = Ok(transform_inventory_data_of(fuel_arg, salt_arg))
    /\ pc' = "done"
    /\ UNCHANGED Pipeline

CallTransformTraffic ==
    /\ pc = "idle"
    /\ \E arg \in TrafficArgs :
         /\ call' = [op |-> "_transform_traffic_data", args |-> <<arg>>]
         /\ result' = Ok(transform_traffic_data_of(arg))
    /\ pc' = "done"
    /\ UNCHANGED Pipeline

ConstructMapRoute ==
    /\ pc = "idle"
    /\ \E id \in RouteIds, priority \in RoutePriorities,
          geometry \in Geometries :
         /\ call' = [op |-> "MapRoute", args |-> <<id, priority, geometry>>]
         /\ result' = MapRoute(id, priority, geometry)
    /\ pc' = "done"
    /\ UNCHANGED Pipeline

ConstructResourceData ==
    /\ pc = "idle"
    /\ \E salt_level \in Percentages, fuel_level \in Percentages :
         /\ call' = [op |-> "ResourceData", args |-> <<salt_level, fuel_level>>]
         /\ result' = ResourceData(salt_level, fuel_level, <<>>)
    /\ pc' = "done"
    /\ UNCHANGED Pipeline

ConstructRouteData ==
    /\ pc = "idle"
    /\ \E active_routes \in RouteCounts, coverage \in Percentages,
          efficiency_scores \in ScoreLists, priority_zones \in ZoneLists :
         /\ call' = [op |-> "RouteData", args |-> <<active_routes, coverage, efficiency_scores,
                                          priority_zones>>]
         /\ result' = RouteData(active_routes, coverage,
                             efficiency_scores, priority_zones)
    /\ pc' = "done"
    /\ UNCHANGED Pipeline

CallReportGenerator ==
    /\ pc = "idle"
    /\ \E tool_input \in ReportInputs, writable \in BOOLEAN :
         /\ call' = [op |-> "ReportGeneratorTool._run", args |-> <<tool_input>>]
         /\ result' = Ok(ReportGeneratorTool_run(tool_input, writable))
    /\ pc' = "done"
    /\ UNCHANGED Pipeline

ConstructOperationalData ==
    /\ pc = "idle"
    /\ \E weather \in SnapshotWeathers, resource_data \in SnapshotResources,
          extra \in BOOLEAN :
         /\ call' = [op |-> "OperationalData",
                     args |-> <<weather, resource_data, extra>>]
         /\ result' = NewOperationalData(weather, resource_data,
                                         DefaultRouteData, DefaultFleetData,
                                         EmptyMapData, extra)
    /\ pc' = "done"
    /\ UNCHANGED Pipeline

\* a caller that holds the snapshot assigns to one of its attributes; a
\* rejected assignment leaves the snapshot as it was
AssignField ==
    /\ pc = "done"
    /\ call.op = "OperationalData"
    /\ ~result.raised
    /\ \E a \in Assignments :
         LET assigned == OperationalData_setattr(result.val, a[1], a[2])
         IN  result' = IF assigned.raised THEN result ELSE assigned
    /\ UNCHANGED <<pc, call>>
    /\ UNCHANGED Pipeline

\* the call is over
Done ==
    /\ pc = "done"
    /\ pc' = "idle"
    /\ call' = NoCall
    /\ result' = NoOutcome
    /\ UNCHANGED Pipeline

ComponentNext ==
    \/ CallSafeParseJson
    \/ CallTransformWeather
    \/ CallTransformInventory
    \/ CallTransformTraffic
    \/ ConstructMapRoute
    \/ ConstructResourceData
    \/ ConstructRouteData
    \/ CallReportGenerator
    \/ ConstructOperationalData
    \/ AssignField
    \/ Done

ComponentSpec == Init /\ [][ComponentNext]_vars

-----------------------------------------------------------------------------
(* What the claims speak of *)

Returned == pc = "returned"
Raised == pc = "raised"
Finished == Returned \/ Raised

\* the document _run returned (when Returned)
Doc == outcome.val.v.o

Args == <<weather_data, fuel_data, salt_data, traffic_data>>

IsAbsentOrEmpty(arg) == arg.k \in {"none", "empty"}
IsMappingText(arg) == arg.k = "json" /\ arg.v.t = "obj"

RequiredSections ==
    {"weather_data", "resource_data", "route_data", "fleet_data", "alerts_data"}
DocumentKeys == RequiredSections \cup {"map_data", "weather_chart_data"}

InPercentRange(x) == 0 <= x /\ x <= U(100)

\* C1: whenever each of the four inputs is absent, the empty string or the
\* JSON text of a mapping, _run does not raise and the returned document
\* has weather_data, resource_data, route_data, fleet_data and alerts_data.
C1_EmptyInputsNeverRaise ==
    (Finished /\ \A i \in 1..4 : IsAbsentOrEmpty(Args[i]) \/ IsMappingText(Args[i]))
        => (Returned /\ RequiredSections \subseteq DOMAIN Doc)

\* C1 witness: a run with an empty weather string, no fuel argument and
\* well-formed salt and traffic payloads has returned a complete document
C1_Witness ==
    /\ Returned
    /\ weather_data = Empty
    /\ fuel_data = None
    /\ IsMappingText(salt_data) /\ salt_data.v.o # EmptySalt
    /\ IsMappingText(traffic_data) /\ traffic_data.v.o # EmptyTraffic
    /\ RequiredSections \subseteq DOMAIN Doc

\* C2: a run ends by returning a structurally complete document or by
\* raising a geometry validation error; no other exception escapes.
C2_OnlyGeometryErrorsEscape ==
    /\ Returned => DOMAIN Doc = DocumentKeys
    /\ Raised => outcome.exc = "GeometryValidationError"

\* C3: in every returned document salt_level, fuel_level and coverage lie in
\* [0,100], and so does every efficiency score and every priority-zone score.
C3_PercentagesInRange ==
    Returned =>
        /\ InPercentRange(Doc.resource_data.salt_level)
        /\ InPercentRange(Doc.resource_data.fuel_level)
        /\ InPercentRange(Doc.route_data.coverage)
        /\ \A i \in 1..Len(Doc.route_data.efficiency_scores) :
             InPercentRange(Doc.route_data.efficiency_scores[i].score)
        /\ \A i \in 1..Len(Doc.route_data.priority_zones) :
             InPercentRange(Doc.route_data.priority_zones[i].score)

\* C3 witness: a document with more than 18 routes, the 19th of which has a
\* synthesized score 85 - 5*18 < 0 reported as 0, and coverage 80 from a
\* speed of 40
C3_Witness ==
    /\ Returned
    /\ Doc.route_data.active_routes > 18
    /\ Len(Doc.route_data.efficiency_scores) = Doc.route_data.active_routes
    /\ Doc.route_data.efficiency_scores[19].score = 0
    /\ Doc.route_data.coverage = U(80)

\* C4: every returned document, from the try branch and from the except
\* branch, has exactly the keys weather_data, resource_data, route_data,
\* fleet_data, alerts_data, map_data and weather_chart_data, the last one a
\* JSON-encoded string.
C4_DocumentKeys ==
    /\ Returned => /\ DOMAIN Doc = DocumentKeys
                   /\ Doc.weather_chart_data.k = "json"
    /\ DOMAIN FallbackDocument = DocumentKeys
    /\ FallbackDocument.weather_chart_data.k = "json"

\* C4 witness: a returned document whose chart has a label per forecast entry
C4_Witness ==
    /\ Returned
    /\ DOMAIN Doc = DocumentKeys
    /\ Len(Doc.weather_data.forecast) = 1
    /\ Len(Doc.weather_chart_data.v.labels) = 1


\* the alerts of a sequence whose message is m
AlertsAbout(alerts, m) == SelectSeq(alerts, LAMBDA a : a.message = m)

\* the inventory alert the specification describes for a level
InventoryAlert(m, level) ==
    MkAlert(IF level < U(30) THEN "warning" ELSE "info", m, level)

\* the payload gives a percentage key a number in [0,100]
PrecomputedLevel(v) == v.t = "num" /\ InPercentRange(v.n)

\* C5: when the fuel payload carries a pre-computed fuel_level f and the
\* salt payload a pre-computed salt_level s, both in [0,100], the document
\* reports fuel_level = f and salt_level = s.
C5_PrecomputedLevelsKept ==
    (/\ Returned
     /\ IsMappingText(fuel_data) /\ PrecomputedLevel(fuel_data.v.o.fuel_level)
     /\ IsMappingText(salt_data) /\ PrecomputedLevel(salt_data.v.o.salt_level))
        => /\ Doc.resource_data.fuel_level = fuel_data.v.o.fuel_level.n
           /\ Doc.resource_data.salt_level = salt_data.v.o.salt_level.n

\* C6: when the traffic payload supplies active_routes directly, the
\* document's route_data.active_routes is the supplied value.
C6_ActiveRoutesKept ==
    (/\ Returned
     /\ IsMappingText(traffic_data)
     /\ traffic_data.v.o.active_routes.t = "num")
        => U(Doc.route_data.active_routes) = traffic_data.v.o.active_routes.n

\* C7: alerts_data holds exactly one salt-inventory alert, 'warning' when
\* salt_level < 30 and 'info' otherwise, and exactly one fuel-inventory
\* alert by the same rule.
C7_OneAlertPerResource ==
    Returned =>
        /\ AlertsAbout(Doc.alerts_data, "Salt inventory critical") =
             <<InventoryAlert("Salt inventory critical", Doc.resource_data.salt_level)>>
        /\ AlertsAbout(Doc.alerts_data, "Fuel inventory critical") =
             <<InventoryAlert("Fuel inventory critical", Doc.resource_data.fuel_level)>>

HasAccumulationAlert(alerts) ==
    \E i \in 1..Len(alerts) :
        alerts[i].level = "danger" /\ alerts[i].message = "Heavy snow accumulation"

\* C8: alerts_data holds a 'danger' heavy-accumulation alert if and only if
\* weather_data.accumulation is greater than 20.
C8_AccumulationAlert ==
    Returned =>
        (HasAccumulationAlert(Doc.alerts_data) <=> Doc.weather_data.accumulation > U(20))

\* C8 witness: an accumulation of 25 has produced the danger alert
C8_Witness ==
    /\ Returned
    /\ Doc.weather_data.accumulation = U(25)
    /\ HasAccumulationAlert(Doc.alerts_data)

\* C9: alerts_data is, in this order, the upstream weather alerts, the salt
\* alert, the fuel alert, the accumulation alert (accumulation > 20) and the
\* extreme-cold alert (current_temp < -20).
C9_AlertOrder ==
    Returned =>
        Doc.alerts_data =
            Doc.weather_data.alerts
            \o <<InventoryAlert("Salt inventory critical", Doc.resource_data.salt_level)>>
            \o <<InventoryAlert("Fuel inventory critical", Doc.resource_data.fuel_level)>>
            \o (IF Doc.weather_data.accumulation > U(20)
                THEN <<MkAlert("danger", "Heavy snow accumulation",
                               Doc.weather_data.accumulation)>>
                ELSE <<>>)
            \o (IF Doc.weather_data.current_temp < -U(20)
                THEN <<MkAlert("warning", "Extreme cold temperature",
                               Doc.weather_data.current_temp)>>
                ELSE <<>>)

\* a Feature wrapping a LineString one of whose coordinates is out of range
OutOfRangeLineString(g) ==
    /\ g.t = "obj" /\ g.wrap = "Feature" /\ g.inner = "obj"
    /\ g.type = "LineString" /\ g.coordinates.t = "list"
    /\ \E i \in 1..Len(g.coordinates.items) :
         /\ g.coordinates.items[i].t = "pair"
         /\ ~GeoCoordOk(g.coordinates.items[i])

HasInvalidRoute(arg) ==
    /\ IsMappingText(arg)
    /\ arg.v.o.routes.t = "list"
    /\ \E i \in 1..Len(arg.v.o.routes.items) :
         /\ arg.v.o.routes.items[i].t = "obj"
         /\ OutOfRangeLineString(arg.v.o.routes.items[i].geometry)

\* C10: when the traffic payload holds a route whose geometry violates the
\* GeoJSON rules, the run raises a geometry validation error instead of
\* returning a document.
C10_InvalidGeometryRaises ==
    (Finished /\ HasInvalidRoute(traffic_data))
        => (Raised /\ outcome.exc = "GeometryValidationError")

-----------------------------------------------------------------------------
(* What the claims about single components speak of *)

\* the component op has been called and has come back
Called(op) == pc = "done" /\ call.op = op

\* a GeoJSON Feature wrapping a LineString with a non-empty list of
\* [lon, lat] pairs of numbers, lon in [-180,180] and lat in [-90,90]
IsLineStringFeature(g) ==
    /\ g.t = "obj" /\ g.wrap = "Feature" /\ g.inner = "obj"
    /\ g.type = "LineString"
    /\ g.coordinates.t = "list"
    /\ g.coordinates.items # <<>>
    /\ \A i \in 1..Len(g.coordinates.items) :
         LET c == g.coordinates.items[i]
         IN  /\ c.t = "pair"
             /\ c.lon >= -U(180) /\ c.lon <= U(180)
             /\ c.lat >= -U(90) /\ c.lat <= U(90)

\* C11: constructing a MapRoute succeeds only when its geometry is a Feature
\* wrapping a LineString with a non-empty list of in-range [lon, lat] pairs;
\* for any other geometry the constructor raises a validation error and no
\* MapRoute is made.
C11_MapRouteGeometry ==
    Called("MapRoute") =>
        /\ ~result.raised => IsLineStringFeature(call.args[3])
        /\ ~IsLineStringFeature(call.args[3]) =>
             result.raised /\ result.exc = "ValidationError"

\* C11 witness: a LineString holding [200, 46.8] has been rejected
C11_Witness ==
    /\ Called("MapRoute")
    /\ call.args[3] = Feature("LineString", List(<<Pair(U(200), 4680)>>))
    /\ result.raised

\* C12: the document _run returned, passed unchanged to
\* ReportGeneratorTool._run, yields a generated report and never an error
\* message.
C12_ReportGenerated ==
    pc = "reported" => report = "HTML report generated successfully"

\* C13: safe_parse_json never raises and always returns a mapping, whatever
\* its input and in both modes.
C13_ParseAlwaysMapping ==
    Called("safe_parse_json") => (~result.raised /\ result.val.t = "obj")


\* the weather argument of the call is one the transformation fails on: a
\* non-empty str, or a mapping on which a statement of the try block raises
WeatherCallFails ==
    /\ ~ArgFalsy(call.args[1], EmptyWeather)
    /\ call.args[1].k = "dict" => WeatherRaises(call.args[1].v.o)

IsErrorSnapshot(w) ==
    /\ w.current_temp = 0
    /\ w.accumulation = 0
    /\ w.current_conditions = "Error"
    /\ w.forecast = <<>>
    /\ Len(w.alerts) = 1
    /\ w.alerts[1].level = "warning"

\* C14: _transform_weather_data never raises, and on every input the
\* transformation fails on it returns the snapshot with current_temp 0,
\* accumulation 0, current_conditions 'Error', an empty forecast and exactly
\* one alert, of level 'warning'.
C14_WeatherNeverRaises ==
    Called("_transform_weather_data") =>
        /\ ~result.raised
        /\ WeatherCallFails => IsErrorSnapshot(result.val)

\* a payload whose only fault is a forecast entry that is no mapping has been
\* answered with the Error snapshot
C14_Witness ==
    /\ Called("_transform_weather_data")
    /\ call.args[1].k = "dict"
    /\ StdForecastRaises(call.args[1].v.o.forecast)
    /\ IsErrorSnapshot(result.val)

\* the mapping a call of _transform_weather_data was given
WeatherCallData == call.args[1].v.o

\* every element of the upstream alert list is a mapping with a str level
\* and a str message
WellFormedAlerts(l) ==
    /\ l.t = "list"
    /\ Len(l.items) >= 1
    /\ \A i \in 1..Len(l.items) :
         /\ l.items[i].t = "obj"
         /\ l.items[i].level.t = "text"
         /\ l.items[i].message.t = "text"

\* the level the specification gives an upstream level
NormalLevel(level) ==
    IF Lower(level) \in ValidLevels THEN Lower(level) ELSE "warning"

\* the payload with every alert level replaced by a recognized one
RecognizedLevels(data) ==
    [data EXCEPT !.alerts.items =
        [i \in 1..Len(data.alerts.items) |->
            [data.alerts.items[i] EXCEPT !.level = Text("info")]]]

\* C15: every upstream weather alert appears in the snapshot's alerts with
\* its level lower-cased, an unrecognized level such as 'high' becoming
\* 'warning', and the snapshot's temperature, conditions, accumulation and
\* forecast are those of the same payload with recognized levels.
C15_AlertLevelsNormalized ==
    ( /\ Called("_transform_weather_data")
      /\ call.args[1].k = "dict"
      /\ WellFormedAlerts(WeatherCallData.alerts)
      /\ ~WeatherRaises(RecognizedLevels(WeatherCallData)) )
    => LET upstream == WeatherCallData.alerts.items
           expected == transform_weather_data(RecognizedLevels(WeatherCallData))
       IN  /\ Len(result.val.alerts) = Len(upstream)
           /\ \A i \in 1..Len(upstream) :
                result.val.alerts[i].level = NormalLevel(upstream[i].level.s)
           /\ result.val.current_temp = expected.current_temp
           /\ result.val.current_conditions = expected.current_conditions
           /\ result.val.accumulation = expected.accumulation
           /\ result.val.forecast = expected.forecast

\* C16: a payload in the nested shape {current_weather_conditions:
\* {temperature, snow_alert, current_snow_amount, snowfall_predictions}} gives
\* a snapshot with that temperature, that snow amount as accumulation and one
\* forecast entry per prediction.
C16_NestedShapeMapped ==
    ( /\ Called("_transform_weather_data")
      /\ call.args[1].k = "dict"
      /\ WeatherCallData.current_weather_conditions.t = "obj"
      /\ WeatherCallData.current_weather_conditions.temperature.t = "num"
      /\ WeatherCallData.current_weather_conditions.current_snow_amount.t = "num"
      /\ WeatherCallData.current_weather_conditions.snowfall_predictions.t = "list" )
    => LET nested == WeatherCallData.current_weather_conditions
       IN  /\ result.val.current_temp = nested.temperature.n
           /\ result.val.accumulation = nested.current_snow_amount.n
           /\ Len(result.val.forecast) = Len(nested.snowfall_predictions.items)

\* an inventory argument that is absent, empty or a string json.loads rejects
AbsentOrInvalid(arg, empty) ==
    ArgFalsy(arg, empty) \/ arg.k \in {"blank", "garbage"}

\* C17: _transform_inventory_data never raises, and whenever the fuel or the
\* salt input is absent, empty or an invalid-JSON string it returns
\* salt_level 50.0 and fuel_level 50.0 with exactly one depot, of status
\* 'Unknown'.
C17_InventoryDefault ==
    Called("_transform_inventory_data") =>
        /\ ~result.raised
        /\ ( \/ AbsentOrInvalid(call.args[1], EmptyFuel)
             \/ AbsentOrInvalid(call.args[2], EmptySalt) )
           => /\ result.val.salt_level = U(50)
              /\ result.val.fuel_level = U(50)
              /\ Len(result.val.depots) = 1
              /\ result.val.depots[1].status = "Unknown"

\* C18: whenever _transform_traffic_data is given a string that is not JSON,
\* its result is the fixed default, with a map_data overlay of no routes and
\* no incidents, and every result it returns has all three of route_data,
\* fleet_data and map_data.
C18_TrafficDefaultComplete ==
    Called("_transform_traffic_data") =>
        /\ ~result.raised
        /\ result.val.has_map_data
        /\ call.args[1].k \in {"blank", "garbage"} =>
             /\ result.val.route_data = DefaultRouteData
             /\ result.val.fleet_data = DefaultFleetData
             /\ result.val.map_data = EmptyMapData

\* the nearest bound of [0,100]
Clamp(v) == Min(Max(v, 0), U(100))

\* v is outside [0,100] and the model's field holds the nearest bound
ClampedTo(v, field) == ~InPercentRange(v) => field = Clamp(v)

\* C19: a ResourceData given salt_level or fuel_level outside [0,100], and a
\* RouteData given coverage, an efficiency score or a priority-zone score
\* outside [0,100], is accepted with the value clamped to 0 or 100.
C19_OutOfRangeClamped ==
    /\ Called("ResourceData") =>
         /\ ~result.raised
         /\ ClampedTo(call.args[1], result.val.salt_level)
         /\ ClampedTo(call.args[2], result.val.fuel_level)
    /\ ( /\ Called("RouteData")
         /\ call.args[1] >= 0
         /\ \A i \in 1..Len(call.args[4]) :
              Lower(call.args[4][i].color) \in StatusColors )
       => /\ ~result.raised
          /\ ClampedTo(call.args[2], result.val.coverage)
          /\ \A i \in 1..Len(call.args[3]) :
               ClampedTo(call.args[3][i].score,
                         result.val.efficiency_scores[i].score)
          /\ \A i \in 1..Len(call.args[4]) :
               ClampedTo(call.args[4][i].score,
                         result.val.priority_zones[i].score)

\* the time strings that are ISO-8601: with or without a trailing 'Z', with
\* a 'T' or a space between date and time
IsIso8601(ts) == ts.wraps = 0 /\ ts.base \in {"isoTZ", "isoT", "isoSpace"}

\* C20: for every forecast entry whose time is ISO-8601 the time of the
\* corresponding entry of the output forecast is the input value unchanged.
C20_IsoTimesKept ==
    ( /\ Called("_transform_weather_data")
      /\ call.args[1].k = "dict"
      /\ WeatherCallData.forecast.t = "list"
      /\ ~WeatherRaises(WeatherCallData) )
    => LET entries == WeatherCallData.forecast.items
       IN  /\ Len(result.val.forecast) = Len(entries)
           /\ \A i \in 1..Len(entries) :
                (entries[i].time.t = "str" /\ IsIso8601(entries[i].time.ts))
                    => result.val.forecast[i].time = entries[i].time.ts

-----------------------------------------------------------------------------
(* What the claims about the derived sections speak of *)

\* the chart of a returned document has a series labelled label whose data
\* are data
HasSeries(chart, label, data) ==
    \E i \in 1..Len(chart.datasets) :
        /\ chart.datasets[i].label = label
        /\ chart.datasets[i].data = data

\* C21: weather_chart_data of the output document holds a label array and
\* temperature, precipitation and snowfall series, each with one element per
\* forecast entry in forecast order, the precipitation series all zeros.
C21_ChartSeries ==
    Returned =>
        LET chart == Doc.weather_chart_data.v
            forecast == Doc.weather_data.forecast
        IN  /\ Len(chart.labels) = Len(forecast)
            /\ HasSeries(chart, "Temperature",
                         [i \in 1..Len(forecast) |-> forecast[i].temp])
            /\ HasSeries(chart, "Snowfall",
                         [i \in 1..Len(forecast) |-> forecast[i].snowfall])
            /\ HasSeries(chart, "Precipitation",
                         [i \in 1..Len(forecast) |-> 0])

\* both inventory arguments of the call are present
InventoryPresent ==
    /\ ~ArgFalsy(call.args[1], EmptyFuel)
    /\ ~ArgFalsy(call.args[2], EmptySalt)

\* the depot follows the threshold rule for the levels reported with it
DepotFollowsLevels(r) ==
    /\ Len(r.depots) = 1
    /\ r.depots[1].name = "Main Depot"
    /\ IF r.salt_level > U(30) /\ r.fuel_level > U(30)
       THEN r.depots[1].status = "Operational"
            /\ r.depots[1].status_color = "success"
       ELSE r.depots[1].status = "Low Stock"
            /\ r.depots[1].status_color = "warning"

\* a quantity float() raises on is among those the call reads, or an argument
\* decodes to something that is no mapping
InventoryCallFails ==
    LET fuel == InventoryMapping(call.args[1], EmptyFuel)
        salt == InventoryMapping(call.args[2], EmptySalt)
    IN  \/ fuel.t # "obj"
        \/ salt.t # "obj"
        \/ ~FloatOk(Get(fuel.o.diesel, Num(0)))
        \/ ~FloatOk(Get(fuel.o.gasoline, Num(0)))
        \/ ~FloatOk(Get(salt.o.rockSalt, Num(0)))
        \/ ~FloatOk(Get(salt.o.treatedSalt, Num(0)))

\* C22 as stated: every ResourceData produced from present fuel and salt
\* inputs has exactly one depot, 'Main Depot', 'Operational'/success exactly
\* when both reported levels exceed 30 and 'Low Stock'/warning otherwise.
C22_DepotRuleAlways ==
    (Called("_transform_inventory_data") /\ InventoryPresent)
        => DepotFollowsLevels(result.val)

\* C22 amended: the same, for present inputs whose quantities are numbers; on
\* present inputs the transformation fails on, the one depot is 'Main Depot'
\* with status 'Unknown' and colour warning.
C22_DepotRule ==
    (Called("_transform_inventory_data") /\ InventoryPresent)
        => IF InventoryCallFails
           THEN /\ Len(result.val.depots) = 1
                /\ result.val.depots[1] =
                       DepotStatus("Main Depot", "Unknown", "warning")
           ELSE DepotFollowsLevels(result.val)

\* fuel is in stock and salt is not: the depot is 'Low Stock'
C22_Witness ==
    /\ Called("_transform_inventory_data")
    /\ InventoryPresent
    /\ ~InventoryCallFails
    /\ result.val.fuel_level > U(30)
    /\ result.val.salt_level = 0
    /\ result.val.depots[1].status = "Low Stock"

-----------------------------------------------------------------------------
(* What the claims about the traffic transformation speak of *)

\* the mapping a call of _transform_traffic_data was given
TrafficCallData == call.args[1].v.o

\* _transform_traffic_data was called with a mapping
CalledTrafficMapping ==
    /\ Called("_transform_traffic_data")
    /\ call.args[1].k \in {"dict", "json"}
    /\ call.args[1].v.t = "obj"

IsListOrAbsent(l) == l.t \in {"list", "missing"}

\* a currentTrafficFlow object whose incidents and roadClosures are lists
WellFormedFlow(f) ==
    /\ f.t = "obj"
    /\ IsListOrAbsent(f.incidents)
    /\ IsListOrAbsent(f.roadClosures)

\* td is in the direct shape {currentTrafficFlow: F}
IsDirectShape(td) ==
    /\ td.routeOptimizationPlan.t = "missing"
    /\ WellFormedFlow(td.currentTrafficFlow)

\* td is in the nested shape {routeOptimizationPlan: {trafficImpactAnalysis:
\* {currentTrafficFlow: F}}}
IsNestedShape(td) ==
    /\ td.currentTrafficFlow.t = "missing"
    /\ td.routeOptimizationPlan.t = "obj"
    /\ td.routeOptimizationPlan.impact = "obj"
    /\ WellFormedFlow(td.routeOptimizationPlan.flow)

\* the object F of a payload in one of the two shapes
ShapeFlow(td) ==
    IF IsDirectShape(td) THEN td.currentTrafficFlow
    ELSE td.routeOptimizationPlan.flow

\* max(1, number of incidents + number of road closures) of F
ExpectedActiveRoutes(f) ==
    Max(1, Len(f.incidents.items) + Len(f.roadClosures.items))

\* C23 as stated: for a payload in either shape active_routes equals max(1,
\* number of incidents + number of road closures) of its currentTrafficFlow.
C23_ActiveRoutesAlways ==
    (CalledTrafficMapping
        /\ (IsDirectShape(TrafficCallData) \/ IsNestedShape(TrafficCallData)))
    => result.val.route_data.active_routes =
           ExpectedActiveRoutes(ShapeFlow(TrafficCallData))

\* C23 amended: the same whenever no statement of the transformation raises;
\* when one does, active_routes is the default's 1.  Either way it is never
\* less than 1.
C23_ActiveRoutes ==
    (CalledTrafficMapping
        /\ (IsDirectShape(TrafficCallData) \/ IsNestedShape(TrafficCallData)))
    => /\ result.val.route_data.active_routes >= 1
       /\ result.val.route_data.active_routes =
            IF TrafficRaises(TrafficCallData) THEN 1
            ELSE ExpectedActiveRoutes(ShapeFlow(TrafficCallData))

\* a nested payload with incidents and a closure gave their number
C23_Witness ==
    /\ CalledTrafficMapping
    /\ IsNestedShape(TrafficCallData)
    /\ ~TrafficRaises(TrafficCallData)
    /\ Len(ShapeFlow(TrafficCallData).incidents.items) = 2
    /\ Len(ShapeFlow(TrafficCallData).roadClosures.items) = 1
    /\ result.val.route_data.active_routes = 3

\* 85 - 5*i, floored at 0 or not
SynthesizedScore(i, floored) ==
    IF floored THEN Max(0, U(85) - U(5) * i) ELSE U(85) - U(5) * i

\* the efficiency scores are one per active route, 'Route i+1' holding the
\* synthesized score of i
ScoresAre(route_data, floored) ==
    /\ Len(route_data.efficiency_scores) = route_data.active_routes
    /\ \A k \in 1..route_data.active_routes :
         /\ route_data.efficiency_scores[k].name = "Route " \o ToString(k)
         /\ route_data.efficiency_scores[k].score =
                SynthesizedScore(k - 1, floored)

\* C24 as stated: efficiency_scores has exactly active_routes entries and
\* 'Route i+1' equals 85 - 5*i for every i in [0, active_routes), negative
\* for i > 17.
C24_ScoresUnclamped ==
    Called("_transform_traffic_data") =>
        ScoresAre(result.val.route_data, FALSE)

\* C24 amended: efficiency_scores has exactly active_routes entries and
\* 'Route i+1' equals max(0, 85 - 5*i): the score is 0 for i >= 17 and never
\* negative.
C24_ScoresFloored ==
    Called("_transform_traffic_data") =>
        ScoresAre(result.val.route_data, TRUE)

\* twenty routes: the 17th scores 5, the 18th to the 20th 0
C24_Witness ==
    /\ Called("_transform_traffic_data")
    /\ result.val.route_data.active_routes = 20
    /\ result.val.route_data.efficiency_scores[17].score = U(5)
    /\ result.val.route_data.efficiency_scores[18].score = 0
    /\ result.val.route_data.efficiency_scores[20].score = 0

\* the call took the non-fallback path: a non-empty mapping on which no
\* statement raises
NonFallbackPath ==
    /\ CalledTrafficMapping
    /\ TrafficCallData # EmptyTraffic
    /\ ~TrafficRaises(TrafficCallData)

\* C25: on the non-fallback path the fleet has exactly one vehicle per
\* active route, and vehicle number i (from 0) has priority 'High' exactly
\* when i is less than the number of incidents, 'Medium' otherwise.
C25_FleetPerRoute ==
    NonFallbackPath =>
        LET vehicles == result.val.fleet_data.vehicles
            nIncidents == Len(Items(StdCurrentTraffic(TrafficCallData).incidents))
        IN  /\ Len(vehicles) = result.val.route_data.active_routes
            /\ \A k \in 1..Len(vehicles) :
                 /\ (k - 1 < nIncidents) => vehicles[k].priority = "High"
                 /\ (k - 1 >= nIncidents) => vehicles[k].priority = "Medium"

\* two incidents and one closure: vehicles 0 and 1 are 'High', vehicle 2 is
\* 'Medium'
C25_Witness ==
    /\ NonFallbackPath
    /\ IsDirectShape(TrafficCallData)
    /\ Len(TrafficCallData.currentTrafficFlow.incidents.items) = 2
    /\ Len(result.val.fleet_data.vehicles) = 3
    /\ result.val.fleet_data.vehicles[2].priority = "High"
    /\ result.val.fleet_data.vehicles[3].priority = "Medium"

\* the payload is {currentTrafficFlow: F} and nothing else, F holding a
\* numeric speed and the lists incidents and roadClosures
OnlyFlowPayload(td) ==
    /\ td = DirectTraffic(td.currentTrafficFlow)
    /\ td.currentTrafficFlow.t = "obj"
    /\ td.currentTrafficFlow.speed.t = "num"
    /\ td.currentTrafficFlow.incidents.t = "list"
    /\ td.currentTrafficFlow.roadClosures.t = "list"
    /\ td.currentTrafficFlow.Incidents.t = "missing"
    /\ td.currentTrafficFlow.Road_Closures.t = "missing"

\* "<description> at <lat>, <lon>" with a description and in-range
\* coordinates
WellFormedEntry(e) ==
    /\ e.t = "str"
    /\ e.parts = 2
    /\ e.desc # ""
    /\ e.coord.fmt \in {"comma_space", "comma"}
    /\ -U(90) <= e.coord.lat /\ e.coord.lat <= U(90)
    /\ -U(180) <= e.coord.lon /\ e.coord.lon <= U(180)

\* C26: each incident or closure entry either yields one MapIncident or is
\* skipped on its own; a bad entry never keeps the well-formed entries from
\* the map and never makes the transformer fall back to the default route,
\* fleet and map data.
C26_BadEntriesSkipped ==
    (CalledTrafficMapping /\ OnlyFlowPayload(TrafficCallData))
    => LET flow == TrafficCallData.currentTrafficFlow
           entries == flow.incidents.items \o flow.roadClosures.items
           wellFormed == SelectSeq(entries, WellFormedEntry)
       IN  /\ Len(result.val.map_data.incidents) >= Len(wellFormed)
           /\ Len(result.val.map_data.incidents) <= Len(entries)
           /\ result.val.route_data.active_routes = ExpectedActiveRoutes(flow)
           /\ result.val.route_data.coverage = Coverage(TrafficCallData)

-----------------------------------------------------------------------------
(* What the claim about the assembled snapshot speaks of *)

\* a snapshot was assembled and a caller holds it
HoldsSnapshot == Called("OperationalData") /\ ~result.raised

\* C27: once an OperationalData has been assembled, after any sequence of
\* attempted field assignments its fields are the ones it was assembled with,
\* so alerts_data agrees with the threshold rules applied to its
\* resource_data and weather_data; and constructing one with an extraneous
\* field is rejected.
C27_SnapshotImmutable ==
    /\ HoldsSnapshot =>
         /\ result.val = OperationalData(call.args[1], call.args[2],
                                         DefaultRouteData, DefaultFleetData,
                                         EmptyMapData)
         /\ result.val.alerts_data =
                validate_and_enhance_alerts(<<>>, result.val.resource_data,
                                            result.val.weather_data)
    /\ (Called("OperationalData") /\ call.args[3]) => result.raised

-----------------------------------------------------------------------------
(* What the further claims about the weather transformation speak of *)

\* C28: a flat payload that has current_temp = t and accumulation = a but no
\* current_conditions key yields a snapshot with current_temp = t,
\* accumulation = a and current_conditions = 'No data'.
C28_MissingConditionsOnly ==
    ( /\ Called("_transform_weather_data")
      /\ call.args[1].k = "dict"
      /\ WeatherCallData.current_conditions.t = "missing"
      /\ WeatherCallData.currentConditions.t = "missing"
      /\ WeatherCallData.current_weather_conditions.t = "missing"
      /\ WeatherCallData.current_temp.t = "num"
      /\ WeatherCallData.accumulation.t = "num"
      /\ WeatherCallData.accumulation.n >= 0 )
    => /\ result.val.current_temp = WeatherCallData.current_temp.n
       /\ result.val.accumulation = WeatherCallData.accumulation.n
       /\ result.val.current_conditions = "No data"

-----------------------------------------------------------------------------
(* What the claims about the map overlay speak of *)

\* a route that is valid GeoJSON (a Feature wrapping a LineString of at
\* least two in-range coordinate pairs) and has no priority of its own
IsValidPlainRoute(route) ==
    /\ route.t = "obj"
    /\ route.priority.t = "missing"
    /\ route.id.t \in {"missing", "text"}
    /\ route.id.t = "text" => route.id.s # ""
    /\ IsLineStringFeature(route.geometry)
    /\ route.geometry.coordinates.t = "list"
    /\ Len(route.geometry.coordinates.items) >= 2
    /\ \A i \in 1..Len(route.geometry.coordinates.items) :
         LET c == route.geometry.coordinates.items[i]
         IN  /\ c.t = "pair"
             /\ -U(180) <= c.lon /\ c.lon <= U(180)
             /\ -U(90) <= c.lat /\ c.lat <= U(90)

\* the payload carries a list of routes, all of them valid and plain
CarriesValidRoutes(td) ==
    /\ td.routes.t = "list"
    /\ \A i \in 1..Len(td.routes.items) : IsValidPlainRoute(td.routes.items[i])

\* the payload without its routes
WithoutRoutes(td) == [td EXCEPT !.routes = NoList]

\* C29: for every N >= 0 a payload carrying N valid routes without explicit
\* priority yields map_data.routes with N entries, and its route_data and
\* fleet_data are the ones computed from the payload's speed, incidents and
\* closures: the number of routes never changes them.
C29_RoutesNeverFallBack ==
    ( /\ CalledTrafficMapping
      /\ CarriesValidRoutes(TrafficCallData)
      /\ WithoutRoutes(TrafficCallData) # EmptyTraffic
      /\ ~TrafficRaises(WithoutRoutes(TrafficCallData)) )
    => LET computed == TrafficResult(WithoutRoutes(TrafficCallData))
       IN  /\ Len(result.val.map_data.routes) = Len(TrafficCallData.routes.items)
           /\ result.val.route_data = computed.route_data
           /\ result.val.fleet_data = computed.fleet_data

\* C30: a payload {routeOptimizationPlan: {trafficImpactAnalysis:
\* {currentTrafficFlow: F}}} produces the route_data, fleet_data and map_data
\* of the payload {currentTrafficFlow: F}, so every well-formed incident or
\* closure string counted in active_routes also appears in the map overlay.
C30_ShapesEquivalent ==
    ( /\ CalledTrafficMapping
      /\ IsNestedShape(TrafficCallData)
      /\ TrafficCallData = NestedTraffic(ShapeFlow(TrafficCallData)) )
    => LET flow == ShapeFlow(TrafficCallData)
           direct == transform_traffic_data(DirectTraffic(flow))
           entries == flow.incidents.items \o flow.roadClosures.items
       IN  /\ result.val.route_data = direct.route_data
           /\ result.val.fleet_data = direct.fleet_data
           /\ result.val.map_data = direct.map_data
           /\ ~TrafficRaises(TrafficCallData) =>
                Len(result.val.map_data.incidents)
                    >= Len(SelectSeq(entries, WellFormedEntry))

=============================================================================
